---- MODULE Spec2Model ----
(***************************************************************************)
(* Diet-plan matching and meal-cycle assembly of the Digital-Twin service: *)
(*   service/pdf_recommender.py          PDFRecommender (strict match,     *)
(*                                       cycle assembler)                  *)
(*   service/recommender_exact/...       ExactMatchRecommender             *)
(*   service/recommender_goal/...        GoalOnlyRecommender               *)
(*   service/api.py                      endpoints and recommender caches  *)
(*                                                                         *)
(*   service/llama_service.py            LlamaService (allergen check,     *)
(*                                       fallback plan)                    *)
(*   service/recommender_ml/...          MLRecommender (retrieval)         *)
(*                                                                         *)
(* Seven specifications share the variables:                               *)
(*   SpecNorm   one raw attribute string is handed to the normalizers      *)
(*   SpecMatch  one matching request runs over an index of plan records    *)
(*              and is answered by its endpoint                            *)
(*   SpecCycle  one call of generate_multi_plan_cycle                      *)
(*   SpecCache  request threads call the strategy getters                  *)
(*   SpecSelect one request to /api/meal-plan/select, then one to          *)
(*              /api/meal-plan/swap                                        *)
(*   SpecLlama  one call of LlamaService.generate_meal_plan                *)
(*   SpecMl     one call of MLRecommender.recommend up to its retrieval    *)
(* Python strings are TLA+ strings; None is the value None, an exception   *)
(* that leaves a function is the value Raises.                             *)
(***************************************************************************)
EXTENDS Integers, Sequences, FiniteSets, TLC

VARIABLES
    \* SpecNorm
    norm_in,            \* the raw value handed to the normalizers
    norm_out,           \* normalizer name -> its result on norm_in, or NotRun
    norm_out2,          \* normalizer name -> its result on norm_out, or NotRun
    \* SpecMatch
    strategy,           \* which recommender serves the request
    user,               \* UserProfile dataclass (strict) / user_profile dict
    index,              \* the loaded plan records, in index order
    pos,                \* number of index records the loop has visited
    matched,            \* positions of the records appended to the result
    mpc,                \* "start" | "loop" | "done" | "recommended" | "responded"
                        \* | "raised" | "idle"
    recommendations,    \* what the recommender's recommend() returned
    response,           \* what the endpoint delivered to the caller
    \* SpecCycle
    selected_plans,     \* argument of generate_multi_plan_cycle
    days,               \* argument of generate_multi_plan_cycle
    plan_pos,           \* number of selected plans the parse loop has visited
    plans_with_meals,   \* sequence of [plan, meals]
    schedule,           \* sequence of daily plans
    plan_index,         \* rotation cursor into plans_with_meals (0-based)
    day,                \* next day to assemble (1-based)
    error,              \* None, or the exception that left the call
    pc,                 \* "start" | "parse" | "check" | "rotate" | "done" | "raised" | "idle"
    \* SpecCache
    index_file,         \* whether outputs/pdf_index.json exists
    cache,              \* getter -> the cached instance (0 is None)
    constructed,        \* getter -> number of instances constructed (index loads)
    returned,           \* getter -> the instances its calls have returned so far
    req,                \* request thread -> its call of a getter
    \* SpecSelect
    profile_json,       \* data/profile.json ({} when the file is missing)
    data,               \* body of the request to /api/meal-plan/select
    recs,               \* select_meal_plans' local `recommendations`
    rec_pos,            \* number of recommendations the conversion has visited
    meal_plans_json,    \* data/meal_plans.json ([] when the file is missing)
    selected_plan_ids_json, \* data/selected_plan_ids.json
    apc,                \* "idle" | "select" | "convert" | "cycle" | "responded" | "swapped"
    api_response,       \* what the endpoint delivered to the caller
    \* SpecLlama
    llm_profile,        \* argument `profile` of generate_meal_plan
    llm_days,           \* argument `days`
    ollama,             \* what _extract_json_from_response yields for each day's call
    all_days,           \* day key -> day data collected so far
    llm_day,            \* next day_num of the loop
    validated,          \* "True" | "False" of _validate_allergen_safety, or NotRun
    llm_plan,           \* what generate_meal_plan returned
    lpc,                \* "idle" | "days" | "combine" | "done"
    \* SpecMl
    ml_request,         \* argument `user_profile` (dict) of MLRecommender.recommend
    embeddings,         \* whether the embedding model and the embeddings loaded
    ml_index,           \* self.index['plans']
    ml_profile,         \* the UserProfile recommend builds
    similar_pdfs,       \* what vector_search returned
    mlpc                \* "idle" | "start" | "search" | "searched" | "retrieved" | "error"

norm_vars  == <<norm_in, norm_out, norm_out2>>
match_vars == <<strategy, user, index, pos, matched, mpc, recommendations, response>>
cycle_vars == <<selected_plans, days, plan_pos, plans_with_meals, schedule, plan_index, day, error, pc>>
cache_vars == <<index_file, cache, constructed, returned, req>>
api_vars   == <<profile_json, data, recs, rec_pos, meal_plans_json, selected_plan_ids_json,
                apc, api_response>>
llm_vars   == <<llm_profile, llm_days, ollama, all_days, llm_day, validated, llm_plan, lpc>>
ml_vars    == <<ml_request, embeddings, ml_index, ml_profile, similar_pdfs, mlpc>>
vars == <<norm_vars, match_vars, cycle_vars, cache_vars, api_vars, llm_vars, ml_vars>>

None   == "<None>"
Raises == "<raises>"
NotRun == "<not run>"

\* Python truthiness of an Optional[str]
Truthy(s) == s # None /\ s # ""

\* {} : a dict with no key
EmptyDict == [s \in {} |-> <<>>]

\* dict.get(key, default)
DictGet(dict, key, default) == IF key \in DOMAIN dict THEN dict[key] ELSE default

-----------------------------------------------------------------------------
(* Raw attribute strings.  Every set is closed under Lower.                 *)

RawDiets ==
    { None, "", "vegetarian", "Vegetarian", "veg", "vegeterian", "vegan", "Vegan",
      "non_veg", "non veg", "Non-Veg", "non-veg", "nonveg", "non_vegetarian",
      "non vegetarian", "non vegeterian", "eggetarian", "eggitarian", "egg",
      "eggeterian", "keto" }

RawBmis ==
    { None, "", "normal", "Normal", "normal weight", "normal_weight", "overweight",
      "over weight", "over_weight", "obese", "Obese", "underweight", "under weight",
      "under_weight", "morbid" }

RawActivities ==
    { None, "", "heavy", "Heavy", "heavy active", "heavy activity", "very_active",
      "moderate", "moderately active", "light", "Light", "lightly active",
      "sedentary", "Sedentary", "athlete" }

RawValues == RawDiets \cup RawBmis \cup RawActivities

\* str.lower() on the raw strings (all others are lower-case already)
Lower(s) ==
    CASE s = "Vegetarian" -> "vegetarian"
      [] s = "Vegan"      -> "vegan"
      [] s = "Non-Veg"    -> "non-veg"
      [] s = "Normal"     -> "normal"
      [] s = "Obese"      -> "obese"
      [] s = "Heavy"      -> "heavy"
      [] s = "Light"      -> "light"
      [] s = "Sedentary"  -> "sedentary"
      [] s = "Breakfast"  -> "breakfast"
      [] s = "Lunch"      -> "lunch"
      [] s = "Dinner"     -> "dinner"
      [] s = "Snack"      -> "snack"
      [] s = "PCOS"       -> "pcos"
      [] s = "Type 2 Diabetes" -> "type 2 diabetes"
      [] s = "Nuts"       -> "nuts"
      [] s = "Oatmeal with fruits"            -> "oatmeal with fruits"
      [] s = "Whole grain toast with avocado" -> "whole grain toast with avocado"
      [] s = "Smoothie bowl"                  -> "smoothie bowl"
      [] s = "Tofu scramble with vegetables"  -> "tofu scramble with vegetables"
      [] s = "Greek yogurt parfait"           -> "greek yogurt parfait"
      [] s = "Quinoa breakfast bowl"          -> "quinoa breakfast bowl"
      [] s = "Protein pancakes"               -> "protein pancakes"
      [] OTHER            -> s

\* Python `sub in s` on the lower-cased raw strings
Contains(sub, s) ==
    CASE sub = "heavy"     -> s \in {"heavy", "heavy active", "heavy activity"}
      [] sub = "moderate"  -> s \in {"moderate", "moderately active"}
      [] sub = "light"     -> s \in {"light", "lightly active"}
      [] sub = "sedentary" -> s \in {"sedentary"}
      [] sub = "pcos"      -> s \in {"pcos"}
      [] sub = "diabetes"  -> s \in {"type 2 diabetes"}
      [] sub = "diabetic"  -> s \in {}
      [] OTHER             -> FALSE

-----------------------------------------------------------------------------
(* Normalizers                                                              *)

\* A _normalize_diet whose canonical non-vegetarian value ("non-veg") is a
\* spelling its own lookup list does not hold.
normalize_diet_hyphen(diet) ==
    IF ~Truthy(diet) THEN "vegetarian"
    ELSE LET diet_lower == Lower(diet) IN
         IF diet_lower \in {"vegeterian", "vegetarian", "veg"} THEN "vegetarian"
         ELSE IF diet_lower \in {"non_veg", "non veg", "non vegeterian",
                                 "non_vegetarian", "non vegetarian"} THEN "non-veg"
         ELSE IF diet_lower = "vegan" THEN "vegan"
         ELSE "vegetarian"

\* PDFRecommender._normalize_diet
normalize_diet(diet) ==
    IF ~Truthy(diet) THEN "vegetarian"
    ELSE LET diet_lower == Lower(diet) IN
         IF diet_lower \in {"vegeterian", "vegetarian", "veg"} THEN "vegetarian"
         ELSE IF diet_lower \in {"non_veg", "non veg", "non vegeterian",
                                 "non_vegetarian", "non vegetarian"} THEN "non_veg"
         ELSE IF diet_lower = "vegan" THEN "vegan"
         ELSE "vegetarian"

\* PDFRecommender._normalize_bmi
normalize_bmi(bmi) ==
    IF ~Truthy(bmi) THEN ""
    ELSE LET bmi_lower == Lower(bmi) IN
         IF bmi_lower \in {"normal", "normal weight", "normal_weight"} THEN "normal"
         ELSE IF bmi_lower \in {"overweight", "over weight", "over_weight"} THEN "overweight"
         ELSE IF bmi_lower \in {"obese"} THEN "obese"
         ELSE IF bmi_lower \in {"underweight", "under weight", "under_weight"} THEN "underweight"
         ELSE bmi_lower

\* PDFRecommender._normalize_activity
normalize_activity(activity) ==
    IF ~Truthy(activity) THEN ""
    ELSE LET activity_lower == Lower(activity) IN
         IF Contains("heavy", activity_lower) \/ activity_lower = "very_active" THEN "heavy"
         ELSE IF Contains("moderate", activity_lower) THEN "moderate"
         ELSE IF Contains("light", activity_lower) THEN "light"
         ELSE IF Contains("sedentary", activity_lower) THEN "sedentary"
         ELSE activity_lower

\* ExactMatchRecommender.normalize_diet_type: no None guard, None.lower() raises
exact_normalize_diet_type(diet) ==
    IF diet = None THEN Raises
    ELSE LET diet_lower == Lower(diet) IN
         IF diet_lower \in {"non_vegetarian", "non_veg", "nonveg", "non vegetarian"} THEN "non_veg"
         ELSE IF diet_lower \in {"vegetarian", "veg"} THEN "vegetarian"
         ELSE IF diet_lower \in {"eggetarian", "eggitarian"} THEN "eggetarian"
         ELSE IF diet_lower \in {"vegan"} THEN "vegan"
         ELSE diet_lower

\* GoalOnlyRecommender.normalize_diet_type
goal_normalize_diet_type(diet) ==
    IF ~Truthy(diet) THEN "vegetarian"
    ELSE LET diet_lower == Lower(diet) IN
         IF diet_lower \in {"non_vegetarian", "non_veg", "nonveg", "non vegetarian",
                            "non vegeterian"} THEN "non_veg"
         ELSE IF diet_lower \in {"vegetarian", "veg", "vegeterian"} THEN "vegetarian"
         ELSE IF diet_lower \in {"vegan"} THEN "vegan"
         ELSE IF diet_lower \in {"eggetarian", "egg", "eggeterian"} THEN "eggetarian"
         ELSE "vegetarian"

DietNormalizers == {"pdf_diet", "exact_diet", "goal_diet"}
Normalizers     == DietNormalizers \cup {"pdf_bmi", "pdf_activity"}

\* the normalizer called n, applied to x
Normalize(n, x) ==
    CASE n = "pdf_diet"     -> normalize_diet(x)
      [] n = "exact_diet"   -> exact_normalize_diet_type(x)
      [] n = "goal_diet"    -> goal_normalize_diet_type(x)
      [] n = "pdf_bmi"      -> normalize_bmi(x)
      [] n = "pdf_activity" -> normalize_activity(x)

\* f(g(x)) in Python: an exception leaving the inner call leaves the outer one too
Renormalize(n, r) == IF r = Raises THEN Raises ELSE Normalize(n, r)

-----------------------------------------------------------------------------
(* SpecNorm: a raw value is drawn, each normalizer is called on it, and     *)
(* called again on its own result.                                          *)

\* ---- the strategy getters of service/api.py

MaxThreads == 2         \* request threads of the server's pool
MaxCalls   == 2         \* getter calls one thread makes

Getters == {"get_recommender", "get_exact_recommender", "get_goal_recommender"}
Threads == 1..MaxThreads

\* a request thread that has not called a getter
NoCall ==
    [ getter |-> "none", gpc |-> "idle", seen |-> {}, failed_before |-> FALSE,
      inst |-> 0, loaded |-> FALSE, result |-> 0, calls |-> 0 ]

CacheIdle ==
    /\ index_file = TRUE
    /\ cache = [g \in Getters |-> 0]
    /\ constructed = [g \in Getters |-> 0]
    /\ returned = [g \in Getters |-> {}]
    /\ req = [t \in Threads |-> NoCall]

ApiIdle ==
    /\ profile_json = EmptyDict /\ data = EmptyDict /\ recs = <<>> /\ rec_pos = 0
    /\ meal_plans_json = <<>> /\ selected_plan_ids_json = <<>>
    /\ apc = "idle" /\ api_response = EmptyDict

LlamaIdle ==
    /\ llm_profile = EmptyDict /\ llm_days = 0 /\ ollama = <<>> /\ all_days = EmptyDict
    /\ llm_day = 0 /\ validated = NotRun /\ llm_plan = EmptyDict /\ lpc = "idle"

MlIdle ==
    /\ ml_request = EmptyDict /\ embeddings = FALSE /\ ml_index = <<>>
    /\ ml_profile = EmptyDict /\ similar_pdfs = <<>> /\ mlpc = "idle"

\* the specifications that are not running
OthersIdle == ApiIdle /\ LlamaIdle /\ MlIdle

MatchIdle ==
    /\ strategy = "none" /\ user = None /\ index = <<>>
    /\ pos = 0 /\ matched = <<>> /\ mpc = "idle"
    /\ recommendations = <<>> /\ response = EmptyDict

CycleIdle ==
    /\ selected_plans = <<>> /\ days = 0 /\ plan_pos = 0 /\ plans_with_meals = <<>>
    /\ schedule = <<>> /\ plan_index = 0 /\ day = 0 /\ error = None /\ pc = "idle"

NormIdle ==
    /\ norm_in = None
    /\ norm_out = [n \in Normalizers |-> NotRun]
    /\ norm_out2 = [n \in Normalizers |-> NotRun]

NormInit ==
    /\ norm_in \in RawValues
    /\ norm_out = [n \in Normalizers |-> NotRun]
    /\ norm_out2 = [n \in Normalizers |-> NotRun]
    /\ MatchIdle
    /\ CycleIdle
    /\ CacheIdle
    /\ OthersIdle

Call(n) ==
    /\ norm_out[n] = NotRun
    /\ norm_out' = [norm_out EXCEPT ![n] = Normalize(n, norm_in)]
    /\ UNCHANGED <<norm_in, norm_out2, match_vars, cycle_vars, cache_vars, api_vars, llm_vars, ml_vars>>

CallAgain(n) ==
    /\ norm_out[n] # NotRun
    /\ norm_out2[n] = NotRun
    /\ norm_out2' = [norm_out2 EXCEPT ![n] = Renormalize(n, norm_out[n])]
    /\ UNCHANGED <<norm_in, norm_out, match_vars, cycle_vars, cache_vars, api_vars, llm_vars, ml_vars>>

CallPdfDiet      == Call("pdf_diet")
CallExactDiet    == Call("exact_diet")
CallGoalDiet     == Call("goal_diet")
CallPdfBmi       == Call("pdf_bmi")
CallPdfActivity  == Call("pdf_activity")
AgainPdfDiet     == CallAgain("pdf_diet")
AgainExactDiet   == CallAgain("exact_diet")
AgainGoalDiet    == CallAgain("goal_diet")
AgainPdfBmi      == CallAgain("pdf_bmi")
AgainPdfActivity == CallAgain("pdf_activity")

NormNext ==
    \/ CallPdfDiet \/ CallExactDiet \/ CallGoalDiet \/ CallPdfBmi \/ CallPdfActivity
    \/ AgainPdfDiet \/ AgainExactDiet \/ AgainGoalDiet \/ AgainPdfBmi \/ AgainPdfActivity

SpecNorm == NormInit /\ [][NormNext]_vars

-----------------------------------------------------------------------------
(* Properties of the normalizers (SpecNorm)                                 *)

NonVegSpellings == {"Non-Veg", "non veg", "nonveg"}

\* C6: diet normalization is case- and separator-insensitive: each diet
\* normalizer returns one and the same value for "Non-Veg", "non veg" and
\* "nonveg".
C6_SeparatorInsensitive ==
    \A n \in DietNormalizers :
        (norm_in \in NonVegSpellings /\ norm_out[n] # NotRun)
            => \A s \in NonVegSpellings : norm_out[n] = Normalize(n, s)

\* C7: diet normalization is idempotent: calling a diet normalizer on its own
\* result gives that result again.  (On None the exact normalizer raises, and
\* so does the composed call.)
C7_Idempotent ==
    \A n \in DietNormalizers :
        norm_out2[n] # NotRun => norm_out2[n] = norm_out[n]

\* C7 witness: a variant spelling of non-vegetarian has been normalized twice
\* by all three diet normalizers, and the first call changed it.
C7_Witness ==
    /\ norm_in = "non vegetarian"
    /\ \A n \in DietNormalizers :
          norm_out[n] = "non_veg" /\ norm_out2[n] = "non_veg"

NullOrUnrecognizedDiets == {None, "", "keto", "morbid", "athlete"}

\* C8: the diet, BMI and activity normalizers are total (no input makes one
\* raise), and every diet normalizer returns vegetarian for a null or
\* unrecognized input.
C8_TotalWithVegetarianDefault ==
    /\ \A n \in Normalizers : norm_out[n] # Raises
    /\ \A n \in DietNormalizers :
          (norm_in \in NullOrUnrecognizedDiets /\ norm_out[n] # NotRun)
              => norm_out[n] = "vegetarian"

\* C10: one shared diet normalization: the Strict, Exact and Relaxed diet
\* normalizers return the same canonical value for the same raw diet.
C10_SharedDietNormalizer ==
    \A n1, n2 \in DietNormalizers :
        (norm_out[n1] # NotRun /\ norm_out[n2] # NotRun) => norm_out[n1] = norm_out[n2]

-----------------------------------------------------------------------------
(* Cycle assembler: PDFRecommender.generate_multi_plan_cycle                *)

MaxSelected == 3        \* longest selected_plans list drawn
MaxDays     == 14       \* largest `days` argument drawn
OptionCycle == 3        \* option_index = (day - 1) % 3

\* the keys of the meal_options literal, in source order
Slots ==
    << "early_morning", "pre_activity", "breakfast", "mid_morning_snack",
       "lunch", "evening_snack", "dinner", "bedtime" >>

SlotSet == { Slots[i] : i \in 1..Len(Slots) }

\* meal_options = {'early_morning': [], ..., 'bedtime': []}
EmptyMealOptions == [s \in SlotSet |-> <<>>]

\* meal_type.replace('_', ' ').title()
Title(meal_type) ==
    CASE meal_type = "early_morning"     -> "Early Morning"
      [] meal_type = "pre_activity"      -> "Pre Activity"
      [] meal_type = "breakfast"         -> "Breakfast"
      [] meal_type = "mid_morning_snack" -> "Mid Morning Snack"
      [] meal_type = "lunch"             -> "Lunch"
      [] meal_type = "evening_snack"     -> "Evening Snack"
      [] meal_type = "dinner"            -> "Dinner"
      [] meal_type = "bedtime"           -> "Bedtime"

\* meal_type_mapping.get(key, None) of _parse_meal_options_from_pdf
meal_type_mapping(key) ==
    CASE key = "Early Morning (On Waking)"  -> "early_morning"
      [] key = "Early Morning (on Waking)"  -> "early_morning"
      [] key = "Early Morning"              -> "early_morning"
      [] key = "Pre-Workout (Heavy Training Fuel)" -> "pre_activity"
      [] key = "Pre-Workout (Heavy Training - Fat Loss Focus)" -> "pre_activity" \* en dash in the source
      [] key = "Pre-Workout"                -> "pre_activity"
      [] key = "Pre-Yoga / Light Activity"  -> "pre_activity"
      [] key = "Pre-Activity"               -> "pre_activity"
      [] key = "Pre-Breakfast"              -> "pre_activity"
      [] key = "Breakfast (Post-Workout)"   -> "breakfast"
      [] key = "Breakfast (Post-Yoga / Morning Meal)" -> "breakfast"
      [] key = "Breakfast"                  -> "breakfast"
      [] key = "Mid-Morning Snack"          -> "mid_morning_snack"
      [] key = "Mid-Morning"                -> "mid_morning_snack"
      [] key = "Lunch"                      -> "lunch"
      [] key = "Evening Snack"              -> "evening_snack"
      [] key = "Evening"                    -> "evening_snack"
      [] key = "Dinner"                     -> "dinner"
      [] key = "Bedtime Snack"              -> "bedtime"
      [] key = "Bedtime"                    -> "bedtime"
      [] OTHER                              -> None

\* safe_int(value, default=0) on what the parser stores: a digit string, a
\* decimal string, or nothing (None)
safe_int(value) ==
    CASE value = None  -> 0
      [] value = "280" -> 280
      [] value = "150" -> 150
      [] value = "22"  -> 22
      [] value = "8.5" -> 8
      [] OTHER         -> 0

\* an option as PDFParser._parse_single_option returns it
RawOption(name, calories, protein, fat) ==
    [ name |-> name, ingredients |-> "oats, milk", serving |-> "1 bowl", time |-> "",
      method |-> "boil",
      nutrition |-> [calories |-> calories, protein |-> protein, carbs |-> None,
                     fat |-> fat, fiber |-> None] ]

\* an option as an AI-generated plan carries it (a full meal object)
MealObject(name, calories) ==
    [ name |-> name, calories |-> calories, protein |-> 10, carbs |-> 30, fat |-> 5,
      fiber |-> 4, ingredients |-> "rice, dal", method |-> "", serving |-> "1 plate" ]

\* parse_pdf_complete(file_path): the documents behind the plans' locators.
\* kind "ok" is a parsed document, "error" the {"error": ...} result of an
\* unreadable file, "raise" an exception inside the parser.
parse_pdf_complete(file_path) ==
    CASE file_path = "plans/a.txt" ->
            [ kind |-> "ok",
              meals |-> <<
                [ meal_type |-> "Lunch (High-Calorie Balanced Meals)",
                  options |-> << RawOption("a-hc-lunch", "280", "22", None) >> ],
                [ meal_type |-> "Breakfast (Post-Workout)",
                  options |-> << RawOption("a-breakfast-1", "280", "22", "8.5"),
                                 RawOption("a-breakfast-2", "150", None, None),
                                 RawOption("a-breakfast-3", None, None, None) >> ],
                [ meal_type |-> "Lunch",
                  options |-> << RawOption("a-lunch-1", "280", "22", None) >> ],
                [ meal_type |-> "Dinner",
                  options |-> << RawOption("a-dinner-1", "150", "22", None),
                                 RawOption("a-dinner-2", "280", None, "8.5") >> ] >> ]
      [] file_path = "plans/b.txt" ->
            [ kind |-> "ok",
              meals |-> <<
                [ meal_type |-> "Early Morning",
                  options |-> << RawOption("b-early-1", None, None, None) >> ],
                [ meal_type |-> "Breakfast",
                  options |-> << RawOption("b-breakfast-1", "150", "22", None),
                                 RawOption("b-breakfast-2", "280", "22", None),
                                 RawOption("b-breakfast-3", "150", None, "8.5") >> ],
                [ meal_type |-> "Bedtime Snack",
                  options |-> << RawOption("b-bedtime-1", "150", None, None),
                                 RawOption("b-bedtime-2", "150", "22", None) >> ] >> ]
      [] file_path = "plans/highcal.txt" ->
            [ kind |-> "ok",
              meals |-> <<
                [ meal_type |-> "Breakfast (High-Calorie)",
                  options |-> << RawOption("h-breakfast-1", "280", "22", None) >> ] >> ]
      [] file_path = "plans/missing.txt" -> [ kind |-> "error" ]
      [] OTHER -> [ kind |-> "raise" ]

\* the plans a caller can select
PdfPlan(id, category) ==
    [ relative_path |-> id, file_path |-> id, category |-> category,
      ai_generated |-> FALSE, meals |-> <<>>,
      nutrition |-> [calories_min |-> 1500, calories_max |-> 1800] ]

AiPlan ==
    [ relative_path |-> None, file_path |-> None, category |-> "ai_generated",
      ai_generated |-> TRUE,
      meals |-> <<
        [ meal_type |-> "Breakfast",
          options |-> << MealObject("ai-breakfast-1", 300), MealObject("ai-breakfast-2", 320),
                         MealObject("ai-breakfast-3", 340), MealObject("ai-breakfast-4", 360) >> ],
        [ meal_type |-> "Snack", options |-> << MealObject("ai-snack-1", 100) >> ],
        [ meal_type |-> "Lunch", options |-> <<>> ],
        [ meal_type |-> "Dinner", options |-> << MealObject("ai-dinner-1", 500) >> ] >>,
      nutrition |-> EmptyDict ]

\* meals attached, no locator, no ai_generated flag
MlPlan ==
    [ relative_path |-> "ml-1", file_path |-> None, category |-> "weight_loss",
      ai_generated |-> FALSE,
      meals |-> << [ meal_type |-> "lunch",
                     options |-> << MealObject("ml-lunch-1", 400),
                                    MealObject("ml-lunch-2", 420) >> ] >>,
      nutrition |-> EmptyDict ]

\* neither a locator nor meals
NoLocatorPlan ==
    [ relative_path |-> "stale-1", file_path |-> None, category |-> "weight_loss",
      ai_generated |-> FALSE, meals |-> <<>>, nutrition |-> EmptyDict ]

PlanCatalogue ==
    { PdfPlan("plans/a.txt", "weight_loss"), PdfPlan("plans/b.txt", "skin_health"),
      PdfPlan("plans/highcal.txt", "weight_gain"), PdfPlan("plans/missing.txt", "gut_detox"),
      PdfPlan("plans/bad.txt", "liver_detox"), AiPlan, MlPlan, NoLocatorPlan }

SeqsUpTo(S, n) == UNION { [1..k -> S] : k \in 0..n }

\* the `days` arguments drawn: one day, the default week, the longest cycle
DayCounts == {1, 7, MaxDays}

\* the dict _parse_meal_options_from_pdf appends to meals_data[meal_type_key]
ParsedOption(option) ==
    [ name        |-> option.name,
      calories    |-> safe_int(option.nutrition.calories),
      protein     |-> safe_int(option.nutrition.protein),
      carbs       |-> safe_int(option.nutrition.carbs),
      fat         |-> safe_int(option.nutrition.fat),
      fiber       |-> safe_int(option.nutrition.fiber),
      ingredients |-> option.ingredients,
      method      |-> option.method,
      serving     |-> option.serving,
      time        |-> option.time ]

\* `for option in meal['options']`
ParsedOptions(options) == [i \in 1..Len(options) |-> ParsedOption(options[i])]

\* the loop of _parse_meal_options_from_pdf over parsed_data['meals']
RECURSIVE CollectMeals(_, _)
CollectMeals(meals, meals_data) ==
    IF meals = <<>> THEN meals_data
    ELSE LET meal == Head(meals)
             meal_type_key == meal_type_mapping(meal.meal_type)
         IN  CollectMeals(Tail(meals),
                 IF meal_type_key # None /\ meal.options # <<>>
                 THEN [meals_data EXCEPT ![meal_type_key] = @ \o ParsedOptions(meal.options)]
                 ELSE meals_data)

\* PDFRecommender._parse_meal_options_from_pdf
parse_meal_options_from_pdf(file_path) ==
    LET parsed_data == parse_pdf_complete(file_path) IN
    IF parsed_data.kind = "raise" THEN EmptyDict
    ELSE CollectMeals(IF parsed_data.kind = "ok" THEN parsed_data.meals ELSE <<>>,
                      EmptyMealOptions)

\* the loop over plan.get('meals', []) for an AI-generated plan
RECURSIVE CollectMlMeals(_, _)
CollectMlMeals(meals, meal_options) ==
    IF meals = <<>> THEN meal_options
    ELSE LET meal_group == Head(meals)
             meal_type == Lower(meal_group.meal_type)
         IN  CollectMlMeals(Tail(meals),
                 IF meal_type \in DOMAIN meal_options /\ meal_group.options # <<>>
                 THEN [meal_options EXCEPT ![meal_type] = @ \o meal_group.options]
                 ELSE meal_options)

\* plan.get('ai_generated') or (plan.get('meals') and not plan.get('file_path'))
IsMlPlan(plan) ==
    plan.ai_generated \/ (plan.meals # <<>> /\ ~Truthy(plan.file_path))

\* the placeholder get_meal_for_option returns for a slot without options
Placeholder(meal_type) ==
    [ name |-> Title(meal_type), calories |-> 0, protein |-> 0, carbs |-> 0, fat |-> 0,
      fiber |-> 0, ingredients |-> <<>>, method |-> "", serving |-> "" ]

\* list[i] with a non-negative i: the element, or IndexError
IndexError == [ raised |-> "IndexError" ]
ListGet(list, i) == IF i < Len(list) THEN list[i + 1] ELSE IndexError
IsIndexError(v) == "raised" \in DOMAIN v

\* get_meal_for_option without the wrap on the slot's own option count
get_meal_for_option_no_wrap(meal_options, meal_type, option_idx) ==
    LET options == DictGet(meal_options, meal_type, <<>>) IN
    IF options = <<>> THEN Placeholder(meal_type)
    ELSE ListGet(options, option_idx)

\* get_meal_for_option (closure of generate_multi_plan_cycle over meal_options)
get_meal_for_option(meal_options, meal_type, option_idx) ==
    LET options == DictGet(meal_options, meal_type, <<>>) IN
    IF options = <<>> THEN Placeholder(meal_type)
    ELSE ListGet(options, option_idx % Len(options))

DayNames == << "Monday", "Tuesday", "Wednesday", "Thursday", "Friday", "Saturday", "Sunday" >>

\* PDFRecommender._get_day_name
get_day_name(d) == DayNames[((d - 1) % 7) + 1]

ProvenanceKeys == {"date", "day", "day_name", "plan_id", "plan_category", "plan_file", "nutrition"}

\* a daily plan that carries only the slots its source plan has options for
daily_plan_skipping_empty(d, current_plan_data) ==
    LET current_plan == current_plan_data.plan
        meal_options == current_plan_data.meals
        option_index == (d - 1) % OptionCycle
        filled == { s \in SlotSet : DictGet(meal_options, s, <<>>) # <<>> }
    IN  [ k \in ProvenanceKeys \cup filled |->
            CASE k = "date"          -> d - 1
              [] k = "day"           -> d
              [] k = "day_name"      -> get_day_name(d)
              [] k = "plan_id"       -> current_plan.relative_path
              [] k = "plan_category" -> current_plan.category
              [] k = "plan_file"     -> current_plan.file_path
              [] k = "nutrition"     -> current_plan.nutrition
              [] OTHER               -> get_meal_for_option(meal_options, k, option_index) ]

\* the daily_plan dict of one loop iteration; date is the offset from start_date
daily_plan(d, current_plan_data) ==
    LET current_plan == current_plan_data.plan
        meal_options == current_plan_data.meals
        option_index == (d - 1) % OptionCycle
    IN  [ k \in ProvenanceKeys \cup SlotSet |->
            CASE k = "date"          -> d - 1
              [] k = "day"           -> d
              [] k = "day_name"      -> get_day_name(d)
              [] k = "plan_id"       -> current_plan.relative_path
              [] k = "plan_category" -> current_plan.category
              [] k = "plan_file"     -> current_plan.file_path
              [] k = "nutrition"     -> current_plan.nutrition
              [] OTHER               -> get_meal_for_option(meal_options, k, option_index) ]

\* rotation cursor that never advances
next_plan_index_stuck(i, n) == i

\* plan_index = (plan_index + 1) % len(plans_with_meals)
next_plan_index(i, n) == (i + 1) % n

CycleInit ==
    /\ selected_plans \in SeqsUpTo(PlanCatalogue, MaxSelected)
    /\ days \in DayCounts
    /\ plan_pos = 0
    /\ plans_with_meals = <<>>
    /\ schedule = <<>>
    /\ plan_index = 0
    /\ day = 0
    /\ error = None
    /\ pc = "start"
    /\ NormIdle
    /\ MatchIdle
    /\ CacheIdle
    /\ OthersIdle

\* `if not selected_plans: raise ValueError`
Validate ==
    /\ pc = "start"
    /\ IF selected_plans = <<>>
       THEN pc' = "raised" /\ error' = "ValueError: Must select at least 1 plan"
       ELSE pc' = "parse" /\ error' = error
    /\ UNCHANGED <<selected_plans, days, plan_pos, plans_with_meals, schedule, plan_index, day>>
    /\ UNCHANGED <<norm_vars, match_vars, cache_vars, api_vars, llm_vars, ml_vars>>

\* one iteration of `for plan in selected_plans`
ParsePlan ==
    /\ pc = "parse"
    /\ plan_pos < Len(selected_plans)
    /\ LET plan == selected_plans[plan_pos + 1] IN
       plans_with_meals' =
          IF IsMlPlan(plan)
          THEN Append(plans_with_meals,
                      [plan |-> plan, meals |-> CollectMlMeals(plan.meals, EmptyMealOptions)])
          ELSE IF Truthy(plan.file_path)
          THEN Append(plans_with_meals,
                      [plan |-> plan, meals |-> parse_meal_options_from_pdf(plan.file_path)])
          ELSE plans_with_meals
    /\ plan_pos' = plan_pos + 1
    /\ UNCHANGED <<selected_plans, days, schedule, plan_index, day, error, pc>>
    /\ UNCHANGED <<norm_vars, match_vars, cache_vars, api_vars, llm_vars, ml_vars>>

\* `if not plans_with_meals: raise ValueError`, then the rotation starts
CheckParsed ==
    /\ pc = "parse"
    /\ plan_pos = Len(selected_plans)
    /\ IF plans_with_meals = <<>>
       THEN /\ pc' = "raised"
            /\ error' = "ValueError: Could not parse meal options from selected plans"
            /\ UNCHANGED <<plan_index, day>>
       ELSE /\ pc' = "rotate"
            /\ plan_index' = 0
            /\ day' = 1
            /\ error' = error
    /\ UNCHANGED <<selected_plans, days, plan_pos, plans_with_meals, schedule>>
    /\ UNCHANGED <<norm_vars, match_vars, cache_vars, api_vars, llm_vars, ml_vars>>

\* one iteration of `for day in range(1, days + 1)`
AssembleDay ==
    /\ pc = "rotate"
    /\ day <= days
    /\ LET current_plan_data == plans_with_meals[plan_index + 1]
           plan_of_day == daily_plan(day, current_plan_data)
       IN  IF \E s \in SlotSet \cap DOMAIN plan_of_day : IsIndexError(plan_of_day[s])
           THEN /\ pc' = "raised"
                /\ error' = "IndexError: list index out of range"
                /\ UNCHANGED <<schedule, plan_index, day>>
           ELSE /\ schedule' = Append(schedule, plan_of_day)
                /\ plan_index' = next_plan_index(plan_index, Len(plans_with_meals))
                /\ day' = day + 1
                /\ UNCHANGED <<pc, error>>
    /\ UNCHANGED <<selected_plans, days, plan_pos, plans_with_meals>>
    /\ UNCHANGED <<norm_vars, match_vars, cache_vars, api_vars, llm_vars, ml_vars>>

\* `return schedule`
ReturnSchedule ==
    /\ pc = "rotate"
    /\ day > days
    /\ pc' = "done"
    /\ UNCHANGED <<selected_plans, days, plan_pos, plans_with_meals, schedule, plan_index, day, error>>
    /\ UNCHANGED <<norm_vars, match_vars, cache_vars, api_vars, llm_vars, ml_vars>>

CycleNext == Validate \/ ParsePlan \/ CheckParsed \/ AssembleDay \/ ReturnSchedule

SpecCycle == CycleInit /\ [][CycleNext]_vars

-----------------------------------------------------------------------------
(* Properties of the cycle assembler (SpecCycle)                            *)

\* the daily plan carries the provenance of `plan`
DrawnFrom(dp, plan) ==
    /\ dp.plan_id = plan.relative_path
    /\ dp.plan_category = plan.category
    /\ dp.plan_file = plan.file_path

HasMealsOrLocator(plan) ==
    plan.ai_generated \/ plan.meals # <<>> \/ Truthy(plan.file_path)

UsablePlans == SelectSeq(selected_plans, HasMealsOrLocator)

SourceOptions(d, s) ==
    DictGet(plans_with_meals[((d - 1) % Len(plans_with_meals)) + 1].meals, s, <<>>)

\* C2: no option lookup is out of range, and a slot with a non-empty option
\* list gets options[((d-1) mod 3) mod len(options)] on day d (so a slot with
\* one option gets that option every day).
C2_OptionWrap ==
    /\ error # "IndexError: list index out of range"
    /\ \A d \in 1..Len(schedule) : \A s \in SlotSet :
          LET options == SourceOptions(d, s) IN
          options # <<>> =>
              /\ s \in DOMAIN schedule[d]
              /\ ((d - 1) % 3) % Len(options) < Len(options)
              /\ schedule[d][s] = options[(((d - 1) % 3) % Len(options)) + 1]
              /\ Len(options) = 1 => schedule[d][s] = options[1]

\* C2 witness: a 14-day cycle from one plan whose lunch has a single option:
\* every day serves it, while breakfast (3 options) and dinner (2) rotate.
C2_Witness ==
    /\ pc = "done"
    /\ days = MaxDays
    /\ selected_plans = << PdfPlan("plans/a.txt", "weight_loss") >>
    /\ \A d \in 1..MaxDays : schedule[d]["lunch"].name = "a-lunch-1"
    /\ schedule[2]["breakfast"].name = "a-breakfast-2"
    /\ schedule[3]["dinner"].name = "a-dinner-1"

\* C3: every daily plan has all eight meal slots, and a slot without options in
\* the day's source plan holds a placeholder named after the slot with zero
\* nutrition.
C3_CompleteSlotSet ==
    \A d \in 1..Len(schedule) :
        /\ SlotSet \subseteq DOMAIN schedule[d]
        /\ \A s \in SlotSet :
              SourceOptions(d, s) = <<>> =>
                  /\ schedule[d][s].name = Title(s)
                  /\ schedule[d][s].calories = 0
                  /\ schedule[d][s].protein = 0
                  /\ schedule[d][s].carbs = 0
                  /\ schedule[d][s].fat = 0
                  /\ schedule[d][s].fiber = 0

\* C3 witness: a returned week whose source plan has breakfast options but no
\* bedtime options: bedtime is the placeholder, breakfast a real option.
C3_Witness ==
    /\ pc = "done"
    /\ days = 7
    /\ selected_plans = << PdfPlan("plans/a.txt", "weight_loss") >>
    /\ schedule[1]["bedtime"].name = "Bedtime"
    /\ schedule[1]["bedtime"].calories = 0
    /\ schedule[1]["breakfast"].name = "a-breakfast-1"
    /\ schedule[1]["breakfast"].calories = 280

\* C4: generate_multi_plan_cycle raises, and returns no cycle, when
\* selected_plans is empty or no selected plan yields a meal option; it never
\* returns a cycle whose every slot of every day is a placeholder.
C4_FailsWithoutMealOptions ==
    /\ (selected_plans = <<>> /\ pc # "start") => (pc = "raised" /\ schedule = <<>>)
    /\ pc = "done" =>
          \E i \in 1..Len(plans_with_meals) : \E s \in SlotSet :
              DictGet(plans_with_meals[i].meals, s, <<>>) # <<>>
    /\ pc = "done" =>
          \E d \in 1..Len(schedule) : \E s \in SlotSet :
              schedule[d][s] # Placeholder(s)

\* ---- C27

\* the slots for which every plan of the rotation carries OptionCycle options
FullSlots ==
    { s \in SlotSet :
        \A i \in 1..Len(plans_with_meals) :
            Len(DictGet(plans_with_meals[i].meals, s, <<>>)) = OptionCycle }

\* C27: in a returned cycle of at least 3k days over k plans, every option of
\* every plan is served on some day, for each slot that has 3 options in
\* each plan.
C27_RotationReachesEveryOption ==
    (pc = "done" /\ days >= OptionCycle * Len(plans_with_meals)) =>
        \A s \in FullSlots :
            \A i \in 1..Len(plans_with_meals) : \A o \in 1..OptionCycle :
                \E d \in 1..Len(schedule) :
                    schedule[d][s] = plans_with_meals[i].meals[s][o]

-----------------------------------------------------------------------------
(* Matching strategies over the plan index                                  *)

MaxIndex == 2           \* longest index drawn

\* PDFRecommender.GOAL_TO_CATEGORY.get(goal)
GOAL_TO_CATEGORY(goal) ==
    CASE goal = "ayurvedic_detox"            -> "ayurvedic_detox"
      [] goal = "digestive_detox"            -> "gut_cleanse_digestive_detox"
      [] goal = "gut_detox"                  -> "gut_detox"
      [] goal = "hair_loss_thinning"         -> "hair_loss"
      [] goal = "liver_detox"                -> "liver_detox"
      [] goal = "probiotic_rich"             -> "probiotic"
      [] goal = "skin_detox"                 -> "skin_detox"
      [] goal = "skin_health"                -> "skin_health"
      [] goal = "weight_gain_underweight"    -> "weight_gain"
      [] goal = "anti_inflammatory"          -> "anti_inflammatory"
      [] goal = "anti_aging_sun_damage"      -> "anti_aging"
      [] goal = "gas_bloating"               -> "gas_bloating"
      [] goal = "protein_rich_balanced"      -> "high_protein_balanced"
      [] goal = "high_protein_high_fiber"    -> "high_protein_high_fiber"
      [] goal = "acne_oily_skin"             -> "skin_health"
      [] goal = "weight_loss_pcos"           -> "weight_loss_pcos"
      [] goal = "weight_loss_only"           -> "weight_loss"
      [] goal = "weight_loss_type1_diabetes" -> "weight_loss_diabetes"
      [] OTHER                               -> None

\* goal_category_map.get(primary_goal, primary_goal) of GoalOnlyRecommender.goal_match
goal_category_map(primary_goal) ==
    CASE primary_goal = "weight_loss"                -> "weight_loss"
      [] primary_goal = "weight_loss_only"           -> "weight_loss"
      [] primary_goal = "weight_loss_pcos"           -> "weight_loss_pcos"
      [] primary_goal = "weight_loss_type1_diabetes" -> "weight_loss_diabetes"
      [] primary_goal = "weight_gain"                -> "weight_gain"
      [] primary_goal = "weight_gain_underweight"    -> "weight_gain"
      [] primary_goal = "muscle_building"            -> "weight_gain"
      [] primary_goal = "maintain"                   -> "maintenance"
      [] primary_goal = "clear_skin"                 -> "skin_health"
      [] primary_goal = "acne_oily_skin"             -> "skin_health"
      [] primary_goal = "skin_health"                -> "skin_health"
      [] primary_goal = "skin_detox"                 -> "skin_detox"
      [] primary_goal = "anti_aging"                 -> "anti_aging"
      [] primary_goal = "anti_aging_sun_damage"      -> "anti_aging"
      [] primary_goal = "gut_health"                 -> "gut_cleanse_digestive_detox"
      [] primary_goal = "digestive_detox"            -> "gut_cleanse_digestive_detox"
      [] primary_goal = "gut_detox"                  -> "gut_detox"
      [] primary_goal = "gas_bloating"               -> "gas_bloating"
      [] primary_goal = "probiotic"                  -> "probiotic"
      [] primary_goal = "probiotic_rich"             -> "probiotic"
      [] primary_goal = "detox"                      -> "ayurvedic_detox"
      [] primary_goal = "ayurvedic_detox"            -> "ayurvedic_detox"
      [] primary_goal = "liver_detox"                -> "liver_detox"
      [] primary_goal = "hair_loss"                  -> "hair_loss"
      [] primary_goal = "hair_loss_thinning"         -> "hair_loss"
      [] primary_goal = "anti_inflammatory"          -> "anti_inflammatory"
      [] primary_goal = "pcos"                       -> "weight_loss_pcos"
      [] primary_goal = "diabetes"                   -> "weight_loss_diabetes"
      [] primary_goal = "protein_rich_balanced"      -> "high_protein_balanced"
      [] primary_goal = "high_protein_high_fiber"    -> "high_protein_high_fiber"
      [] primary_goal = "energy"                     -> "energy_boost"
      [] primary_goal = "better_sleep"               -> "sleep_improvement"
      [] OTHER                                       -> primary_goal

\* goal_category_map.get(primary_goal, [primary_goal]) of ExactMatchRecommender.exact_match
exact_goal_category_map(primary_goal) ==
    CASE primary_goal = "weight_gain"       -> {"weight_gain"}
      [] primary_goal = "muscle_building"   -> {"weight_gain", "high_protein_balanced",
                                                "high_protein_high_fiber"}
      [] primary_goal = "maintain"          -> {"maintenance"}
      [] primary_goal = "clear_skin"        -> {"skin_health", "skin_detox"}
      [] primary_goal = "skin_health"       -> {"skin_health", "skin_detox"}
      [] primary_goal = "gut_health"        -> {"gut_health", "gut_detox",
                                                "gut_cleanse_digestive_detox", "probiotic"}
      [] primary_goal = "energy"            -> {"energy_boost"}
      [] primary_goal = "better_sleep"      -> {"sleep_improvement"}
      [] primary_goal = "pcos"              -> {"weight_loss_pcos", "pcos"}
      [] primary_goal = "diabetes"          -> {"weight_loss_diabetes", "diabetes"}
      [] primary_goal = "hair_loss"         -> {"hair_loss"}
      [] primary_goal = "anti_aging"        -> {"anti_aging"}
      [] primary_goal = "detox"             -> {"detox", "liver_detox", "ayurvedic_detox",
                                                "skin_detox", "gut_detox"}
      [] primary_goal = "anti_inflammatory" -> {"anti_inflammatory"}
      [] primary_goal = "probiotic"         -> {"probiotic", "gut_cleanse_digestive_detox"}
      [] primary_goal = "gas_bloating"      -> {"gas_bloating", "gut_cleanse_digestive_detox"}
      [] OTHER                              -> {primary_goal}

\* `x or default` on an Optional[str]
OrElse(x, default) == IF Truthy(x) THEN x ELSE default

\* a plan record of the index
BasePlan ==
    [ category |-> "weight_loss_pcos", region |-> "north_indian",
      diet_type |-> "vegetarian", gender |-> "female", bmi_category |-> "obese",
      activity |-> "light",
      age_info |-> [age_min |-> 30, age_max |-> 30, age_avg |-> 30],
      nutrition |-> [calories_min |-> 1400, calories_max |-> 1600],
      ingredients |-> {"rice", "dal"} ]

PlanRecords ==
    { BasePlan }
    \cup { [BasePlan EXCEPT !.category = c] : c \in {"skin_health", None} }
    \cup { [BasePlan EXCEPT !.region = r] : r \in {"south_indian"} }
    \cup { [BasePlan EXCEPT !.diet_type = x] :
              x \in {"vegeterian", "non veg", "non vegetarian", "eggetarian", "vegan",
                     None} }
    \cup { [BasePlan EXCEPT !.gender = g] : g \in {"male"} }
    \cup { [BasePlan EXCEPT !.bmi_category = b] : b \in {"Obese", "over weight"} }
    \cup { [BasePlan EXCEPT !.activity = a] : a \in {"lightly active", "heavy"} }
    \cup { [BasePlan EXCEPT !.age_info = a] :
              a \in {EmptyDict, [age_min |-> 25, age_max |-> 35, age_avg |-> 30]} }
    \cup { [BasePlan EXCEPT !.nutrition = n] :
              n \in {EmptyDict, [calories_min |-> 900, calories_max |-> 1050]} }
    \cup { [BasePlan EXCEPT !.ingredients = i] : i \in {{"rice", "paneer"}} }

\* a user: the fields of the UserProfile dataclass and of the profile dict
BaseUser ==
    [ gender |-> "female", age |-> 30, weight |-> 78, target_weight |-> 65,
      bmi_category |-> "obese", activity_level |-> "light", diet_type |-> "vegetarian",
      region |-> "north_indian", goal |-> "weight_loss_pcos",
      goals |-> << "weight_loss_pcos" >>, medical_conditions |-> <<>>,
      allergies |-> <<>> ]

\* a profile dict without the key
Without(u, key) == [k \in DOMAIN u \ {key} |-> u[k]]

\* UserProfile instances handed to PDFRecommender
StrictUsers ==
    { BaseUser }
    \cup { [BaseUser EXCEPT !.goal = g] : g \in {"acne_oily_skin", "weight_loss", ""} }
    \cup { [BaseUser EXCEPT !.region = r] : r \in {"south_indian"} }
    \cup { [BaseUser EXCEPT !.diet_type = x] : x \in {"Vegetarian", "non_veg", "eggetarian"} }
    \cup { [BaseUser EXCEPT !.gender = g] : g \in {"male"} }
    \cup { [BaseUser EXCEPT !.bmi_category = b] : b \in {"Obese", "overweight"} }
    \cup { [BaseUser EXCEPT !.activity_level = a] : a \in {"Light", "very_active"} }
    \cup { [BaseUser EXCEPT !.allergies = a] : a \in { << "dairy" >> } }

\* user_profile dicts handed to ExactMatchRecommender and GoalOnlyRecommender
DictUsers ==
    { BaseUser }
    \cup { [BaseUser EXCEPT !.goals = g] :
              g \in { <<>>, << "pcos" >>, << "skin_health", "weight_gain" >> } }
    \cup { [BaseUser EXCEPT !.goals = << "weight_loss" >>, !.medical_conditions = m] :
              m \in { <<>>, << "PCOS" >>, << "Type 2 Diabetes" >> } }
    \cup { [BaseUser EXCEPT !.goals = <<>>, !.target_weight = t] : t \in {78, 90} }
    \cup { [BaseUser EXCEPT !.region = r] : r \in {"south_indian"} }
    \cup { [BaseUser EXCEPT !.diet_type = x] :
              x \in {"Vegetarian", "non_veg", "eggetarian", None} }
    \cup { [BaseUser EXCEPT !.gender = g] : g \in {"male"} }
    \cup { [BaseUser EXCEPT !.age = a] : a \in {25} }
    \cup { [BaseUser EXCEPT !.activity_level = a] : a \in {"Light", "very_active"} }
    \cup { [BaseUser EXCEPT !.bmi_category = b] : b \in {"normal"} }
    \cup { [BaseUser EXCEPT !.medical_conditions = m] : m \in { << "PCOS" >> } }
    \cup { [BaseUser EXCEPT !.allergies = a] : a \in { << "dairy" >> } }
    \cup { Without([BaseUser EXCEPT !.goals = <<>>], "target_weight"),
           Without([BaseUser EXCEPT !.goals = <<>>, !.target_weight = 90], "weight") }

\* ---- PDFRecommender.hierarchical_exact_match

\* the six-factor condition without the gender check
strict_plan_matches_no_gender(u, category, plan) ==
    /\ plan.category = category
    /\ plan.region = u.region
    /\ normalize_diet(plan.diet_type) = normalize_diet(u.diet_type)
    /\ normalize_bmi(plan.bmi_category) = normalize_bmi(u.bmi_category)
    /\ normalize_activity(plan.activity) = normalize_activity(u.activity_level)

\* the `if` of the loop: all six factors
strict_plan_matches(u, category, plan) ==
    /\ plan.category = category
    /\ plan.region = u.region
    /\ normalize_diet(plan.diet_type) = normalize_diet(u.diet_type)
    /\ plan.gender = u.gender
    /\ normalize_bmi(plan.bmi_category) = normalize_bmi(u.bmi_category)
    /\ normalize_activity(plan.activity) = normalize_activity(u.activity_level)

\* ---- ExactMatchRecommender.exact_match

\* any('pcos' in str(condition).lower() for condition in medical_conditions)
AnyCondition(sub, medical_conditions) ==
    \E i \in 1..Len(medical_conditions) : Contains(sub, Lower(medical_conditions[i]))

\* user_profile.get('goals', ['maintain'])[0] if user_profile.get('goals') else 'maintain'
exact_primary_goal(u) == IF u.goals # <<>> THEN u.goals[1] ELSE "maintain"

target_categories(u) ==
    LET primary_goal == exact_primary_goal(u)
        has_pcos == AnyCondition("pcos", u.medical_conditions)
        has_diabetes == AnyCondition("diabetes", u.medical_conditions)
                            \/ AnyCondition("diabetic", u.medical_conditions)
    IN  IF primary_goal = "weight_loss"
        THEN {"weight_loss"}
                \cup (IF has_pcos THEN {"weight_loss_pcos"} ELSE {})
                \cup (IF has_diabetes THEN {"weight_loss_diabetes"} ELSE {})
        ELSE exact_goal_category_map(primary_goal)

\* plan_age from plan['age_info']; None when the plan has no age info
plan_age(plan) ==
    LET age_info == plan.age_info IN
    IF age_info = EmptyDict THEN None
    ELSE IF age_info.age_min = age_info.age_max THEN age_info.age_min
    ELSE IF age_info.age_avg # 0 THEN age_info.age_avg
    ELSE IF age_info.age_min # 0 THEN age_info.age_min
    ELSE None

\* the `if` of the loop
exact_plan_matches(u, plan) ==
    LET gender == Lower(u.gender)
        activity == Lower(u.activity_level)
        diet == exact_normalize_diet_type(u.diet_type)
        region == Lower(u.region)
        plan_gender == Lower(OrElse(plan.gender, ""))
        plan_activity == Lower(OrElse(plan.activity, ""))
        plan_diet == exact_normalize_diet_type(OrElse(plan.diet_type, "vegetarian"))
        plan_region == Lower(OrElse(plan.region, ""))
        plan_category == Lower(OrElse(plan.category, ""))
        activity_match == plan_activity = activity
                             \/ (activity = "very_active" /\ plan_activity = "heavy")
    IN  /\ plan.age_info # EmptyDict
        /\ plan_age(plan) = u.age
        /\ plan_gender = gender
        /\ activity_match
        /\ plan_diet = diet
        /\ plan_region = region
        /\ plan_category \in target_categories(u)

\* ---- GoalOnlyRecommender.goal_match

\* GoalOnlyRecommender.detect_primary_goal
detect_primary_goal(u) ==
    LET goals == DictGet(u, "goals", <<>>)
        current_weight == DictGet(u, "weight", 0)
        target_weight == DictGet(u, "target_weight", 0)
    IN  IF goals # <<>> THEN goals[1]
        ELSE IF target_weight > current_weight THEN "weight_gain"
        ELSE IF target_weight < current_weight THEN "weight_loss"
        ELSE "maintain"

\* a goal_match that also requires the plan's gender to be the user's
goal_plan_matches_gender(u, plan) ==
    LET diet == goal_normalize_diet_type(u.diet_type)
        region == Lower(u.region)
        target_category == goal_category_map(detect_primary_goal(u))
        plan_category == Lower(OrElse(plan.category, ""))
        plan_diet == Lower(OrElse(plan.diet_type, "vegetarian"))
        plan_region == Lower(OrElse(plan.region, ""))
        plan_gender == Lower(OrElse(plan.gender, ""))
    IN  /\ plan_category = target_category /\ plan_diet = diet /\ plan_region = region
        /\ plan_gender = Lower(u.gender)

\* the `if` of the loop
goal_plan_matches(u, plan) ==
    LET diet == goal_normalize_diet_type(u.diet_type)
        region == Lower(u.region)
        target_category == goal_category_map(detect_primary_goal(u))
        plan_category == Lower(OrElse(plan.category, ""))
        plan_diet == Lower(OrElse(plan.diet_type, "vegetarian"))
        plan_region == Lower(OrElse(plan.region, ""))
    IN  plan_category = target_category /\ plan_diet = diet /\ plan_region = region

\* ---- one matching request

MatchInit ==
    /\ strategy \in {"strict", "exact", "goal"}
    /\ user \in (IF strategy = "strict" THEN StrictUsers ELSE DictUsers)
    /\ index \in SeqsUpTo(PlanRecords, MaxIndex)
    /\ pos = 0
    /\ matched = <<>>
    /\ mpc = "start"
    /\ recommendations = <<>>
    /\ response = EmptyDict
    /\ NormIdle
    /\ CycleIdle
    /\ CacheIdle
    /\ OthersIdle

\* hierarchical_exact_match up to the loop: the goal is mapped to a category
StrictStart ==
    /\ mpc = "start" /\ strategy = "strict"
    /\ mpc' = IF ~Truthy(GOAL_TO_CATEGORY(user.goal)) THEN "done" ELSE "loop"
    /\ UNCHANGED <<strategy, user, index, pos, matched, recommendations, response, norm_vars, cycle_vars, cache_vars, api_vars, llm_vars, ml_vars>>

\* one iteration of `for plan in self.index['plans']`
StrictVisit ==
    /\ mpc = "loop" /\ strategy = "strict"
    /\ pos < Len(index)
    /\ LET plan == index[pos + 1] IN
       matched' = IF strict_plan_matches(user, GOAL_TO_CATEGORY(user.goal), plan)
                  THEN Append(matched, plan) ELSE matched
    /\ pos' = pos + 1
    /\ UNCHANGED <<strategy, user, index, mpc, recommendations, response, norm_vars, cycle_vars, cache_vars, api_vars, llm_vars, ml_vars>>

\* exact_match up to the loop: the user's criteria are extracted; the diet
\* normalizer raises on a null diet_type
ExactStart ==
    /\ mpc = "start" /\ strategy = "exact"
    /\ mpc' = IF exact_normalize_diet_type(user.diet_type) = Raises THEN "raised" ELSE "loop"
    /\ UNCHANGED <<strategy, user, index, pos, matched, recommendations, response, norm_vars, cycle_vars, cache_vars, api_vars, llm_vars, ml_vars>>

\* one iteration of `for plan in self.plans` of exact_match
ExactVisit ==
    /\ mpc = "loop" /\ strategy = "exact"
    /\ pos < Len(index)
    /\ LET plan == index[pos + 1] IN
       matched' = IF exact_plan_matches(user, plan) THEN Append(matched, plan) ELSE matched
    /\ pos' = pos + 1
    /\ UNCHANGED <<strategy, user, index, mpc, recommendations, response, norm_vars, cycle_vars, cache_vars, api_vars, llm_vars, ml_vars>>

\* goal_match up to the loop
GoalStart ==
    /\ mpc = "start" /\ strategy = "goal"
    /\ mpc' = "loop"
    /\ UNCHANGED <<strategy, user, index, pos, matched, recommendations, response, norm_vars, cycle_vars, cache_vars, api_vars, llm_vars, ml_vars>>

\* one iteration of `for plan in self.plans` of goal_match
GoalVisit ==
    /\ mpc = "loop" /\ strategy = "goal"
    /\ pos < Len(index)
    /\ LET plan == index[pos + 1] IN
       matched' = IF goal_plan_matches(user, plan) THEN Append(matched, plan) ELSE matched
    /\ pos' = pos + 1
    /\ UNCHANGED <<strategy, user, index, mpc, recommendations, response, norm_vars, cycle_vars, cache_vars, api_vars, llm_vars, ml_vars>>

\* `return matched`
MatchReturn ==
    /\ mpc = "loop"
    /\ pos = Len(index)
    /\ mpc' = "done"
    /\ UNCHANGED <<strategy, user, index, pos, matched, recommendations, response, norm_vars, cycle_vars, cache_vars, api_vars, llm_vars, ml_vars>>

\* ---- recommend() of the three recommenders and the endpoints that call them

TopK == 10              \* recommend(..., top_k=10)

\* seq[:n]
Take(seq, n) == SubSeq(seq, 1, IF Len(seq) < n THEN Len(seq) ELSE n)

\* the orders random.shuffle(seq) can leave seq in
Shuffles(seq) ==
    { [i \in 1..Len(seq) |-> seq[p[i]]] : p \in Permutations(1..Len(seq)) }

\* the card an endpoint builds from a recommended plan; "calories" is the
\* string "<calories_min>-<calories_max> kcal", kept as its two numbers
Card(i, plan, with_score) ==
    LET nutrition == DictGet(plan, "nutrition", EmptyDict)
        base == [ id |-> i,
                  category |-> DictGet(plan, "category", "N/A"),
                  region |-> DictGet(plan, "region", "N/A"),
                  diet_type |-> DictGet(plan, "diet_type", "N/A"),
                  calories_min |-> DictGet(nutrition, "calories_min", 0),
                  calories_max |-> DictGet(nutrition, "calories_max", 0) ]
    IN  IF with_score
        THEN [ k \in DOMAIN base \cup {"score"} |->
                 IF k = "score" THEN DictGet(plan, "recommendation_score", 0) ELSE base[k] ]
        ELSE base

\* cards = [card for i, plan in enumerate(recommendations)]
Cards(plans, with_score) == [i \in 1..Len(plans) |-> Card(i - 1, plans[i], with_score)]

\* raise HTTPException(status_code=..., detail=...)
HTTPException(status_code, detail) ==
    [ raised |-> "HTTPException", status_code |-> status_code, detail |-> detail ]

\* PDFRecommender.recommend after hierarchical_exact_match returned
StrictRecommend ==
    /\ mpc = "done" /\ strategy = "strict"
    /\ recommendations' \in IF matched = <<>> THEN { <<>> }
                             ELSE { Take(sh, TopK) : sh \in Shuffles(matched) }
    /\ mpc' = "recommended"
    /\ UNCHANGED <<strategy, user, index, pos, matched, response, norm_vars, cycle_vars, cache_vars, api_vars, llm_vars, ml_vars>>

\* generate_meal_plan after recommender.recommend returned
GenerateMealPlan ==
    /\ mpc = "recommended" /\ strategy = "strict"
    /\ response' = IF recommendations = <<>>
                   THEN HTTPException(404, "No matching meal plans found for your profile")
                   ELSE [ status |-> "success",
                          recommendations |-> Cards(recommendations, TRUE) ]
    /\ mpc' = "responded"
    /\ UNCHANGED <<strategy, user, index, pos, matched, recommendations, norm_vars, cycle_vars, cache_vars, api_vars, llm_vars, ml_vars>>

\* ExactMatchRecommender.recommend after exact_match returned
ExactRecommend ==
    /\ mpc = "done" /\ strategy = "exact"
    /\ recommendations' =
          IF matched = <<>>
          THEN [ status |-> "not_available",
                 message |-> "No diet plan available for your exact requirements.",
                 recommendations |-> <<>>,
                 criteria |-> [ gender |-> DictGet(user, "gender", None),
                                age |-> DictGet(user, "age", None),
                                height |-> DictGet(user, "height", None),
                                weight |-> DictGet(user, "weight", None),
                                activity_level |-> DictGet(user, "activity_level", None),
                                diet_type |-> DictGet(user, "diet_type", None),
                                region |-> DictGet(user, "region", None),
                                goal |-> exact_primary_goal(user) ] ]
          ELSE [ status |-> "success",
                 recommendations |-> Take(matched, TopK),
                 total_matches |-> Len(matched) ]
    /\ mpc' = "recommended"
    /\ UNCHANGED <<strategy, user, index, pos, matched, response, norm_vars, cycle_vars, cache_vars, api_vars, llm_vars, ml_vars>>

\* generate_exact_match_recommendations after exact_recommender.recommend returned
GenerateExact ==
    /\ mpc = "recommended" /\ strategy = "exact"
    /\ response' = IF recommendations.status = "not_available"
                   THEN recommendations
                   ELSE [ status |-> "success",
                          recommendations |-> Cards(recommendations.recommendations, FALSE),
                          match_type |-> "exact",
                          total_matches |-> DictGet(recommendations, "total_matches", 0) ]
    /\ mpc' = "responded"
    /\ UNCHANGED <<strategy, user, index, pos, matched, recommendations, norm_vars, cycle_vars, cache_vars, api_vars, llm_vars, ml_vars>>

\* GoalOnlyRecommender.recommend after goal_match returned
GoalRecommend ==
    /\ mpc = "done" /\ strategy = "goal"
    /\ recommendations' =
          IF matched = <<>>
          THEN [ status |-> "not_available",
                 message |-> << "No diet plans found for goal", detect_primary_goal(user),
                                "diet", DictGet(user, "diet_type", None),
                                "region", DictGet(user, "region", None) >>,
                 recommendations |-> <<>>,
                 criteria |-> [ goal |-> detect_primary_goal(user),
                                diet_type |-> DictGet(user, "diet_type", None),
                                region |-> DictGet(user, "region", None) ] ]
          ELSE [ status |-> "success",
                 recommendations |-> Take(matched, TopK),
                 total_matches |-> Len(matched),
                 criteria |-> [ goal |-> detect_primary_goal(user),
                                diet_type |-> DictGet(user, "diet_type", None),
                                bmi_category |-> DictGet(user, "bmi_category", None) ] ]
    /\ mpc' = "recommended"
    /\ UNCHANGED <<strategy, user, index, pos, matched, response, norm_vars, cycle_vars, cache_vars, api_vars, llm_vars, ml_vars>>

\* generate_goal_only_recommendations after goal_recommender.recommend returned
GenerateGoal ==
    /\ mpc = "recommended" /\ strategy = "goal"
    /\ response' = IF recommendations.status = "not_available"
                   THEN recommendations
                   ELSE [ status |-> "success",
                          recommendations |-> Cards(recommendations.recommendations, FALSE),
                          match_type |-> "goal_only",
                          total_matches |-> DictGet(recommendations, "total_matches", 0),
                          criteria |-> DictGet(recommendations, "criteria", EmptyDict) ]
    /\ mpc' = "responded"
    /\ UNCHANGED <<strategy, user, index, pos, matched, recommendations, norm_vars, cycle_vars, cache_vars, api_vars, llm_vars, ml_vars>>

MatchNext ==
    \/ StrictStart \/ StrictVisit \/ ExactStart \/ ExactVisit \/ GoalStart \/ GoalVisit
    \/ MatchReturn
    \/ StrictRecommend \/ GenerateMealPlan \/ ExactRecommend \/ GenerateExact
    \/ GoalRecommend \/ GenerateGoal

SpecMatch == MatchInit /\ [][MatchNext]_vars

-----------------------------------------------------------------------------
(* Properties of the matching strategies (SpecMatch)                        *)

Range(seq) == { seq[i] : i \in 1..Len(seq) }

\* the goals of the strict goal-to-category table
StrictGoals ==
    { "ayurvedic_detox", "digestive_detox", "gut_detox", "hair_loss_thinning",
      "liver_detox", "probiotic_rich", "skin_detox", "skin_health",
      "weight_gain_underweight", "anti_inflammatory", "anti_aging_sun_damage",
      "gas_bloating", "protein_rich_balanced", "high_protein_high_fiber",
      "acne_oily_skin", "weight_loss_pcos", "weight_loss_only",
      "weight_loss_type1_diabetes" }

\* record p equals user u, after normalization, on all six axes
SixAxesEqual(u, p) ==
    /\ p.category = GOAL_TO_CATEGORY(u.goal)
    /\ p.region = u.region
    /\ normalize_diet(p.diet_type) = normalize_diet(u.diet_type)
    /\ p.gender = u.gender
    /\ normalize_bmi(p.bmi_category) = normalize_bmi(u.bmi_category)
    /\ normalize_activity(p.activity) = normalize_activity(u.activity_level)

\* C5: Strict Hierarchical Match returns the empty list when the user's goal is
\* not in the goal-to-category table, and otherwise exactly the index records
\* equal to the user, after normalization, on category, region, diet_type,
\* gender, bmi_category and activity.
C5_StrictMatchExact ==
    (strategy = "strict" /\ mpc = "done") =>
        IF user.goal \notin StrictGoals
        THEN matched = <<>>
        ELSE Range(matched) = { p \in Range(index) : SixAxesEqual(user, p) }

\* C5 witness: of two records, the one that spells the user's diet differently
\* is returned and the one of the other gender is not.
C5_Witness ==
    /\ strategy = "strict" /\ mpc = "done"
    /\ user = [BaseUser EXCEPT !.bmi_category = "Obese"]
    /\ index = << [BasePlan EXCEPT !.diet_type = "vegeterian"],
                  [BasePlan EXCEPT !.gender = "male"] >>
    /\ matched = << [BasePlan EXCEPT !.diet_type = "vegeterian"] >>

\* the record a strategy would see had the index stored canonical spellings
CanonicalPlan(strat, plan) ==
    CASE strat = "strict" ->
            [plan EXCEPT !.diet_type = normalize_diet(@),
                         !.bmi_category = normalize_bmi(@),
                         !.activity = normalize_activity(@)]
      [] strat = "exact" ->
            [plan EXCEPT !.diet_type = exact_normalize_diet_type(OrElse(@, "vegetarian"))]
      [] strat = "goal" ->
            [plan EXCEPT !.diet_type = goal_normalize_diet_type(@)]

\* the strategy's per-record condition
PlanMatches(strat, u, plan) ==
    CASE strat = "strict" ->
            /\ Truthy(GOAL_TO_CATEGORY(u.goal))
            /\ strict_plan_matches(u, GOAL_TO_CATEGORY(u.goal), plan)
      [] strat = "exact" -> exact_plan_matches(u, plan)
      [] strat = "goal"  -> goal_plan_matches(u, plan)

\* C9: in every strategy both sides of an attribute check are normalized by
\* the same function, so a record stored with a variant spelling is matched
\* exactly as if it were stored in canonical form.
C9_VariantSpellingMatchesAsCanonical ==
    mpc = "done" =>
        \A i \in 1..Len(index) :
            (index[i] \in Range(matched))
                <=> PlanMatches(strategy, user, CanonicalPlan(strategy, index[i]))

-----------------------------------------------------------------------------
(* Properties of the generate path: recommend() and the endpoints          *)

\* the ingredient keywords an allergy stands for
AllergenIngredients(allergy) ==
    CASE allergy = "dairy" -> {"milk", "paneer", "curd", "yogurt", "butter", "ghee", "cheese"}
      [] allergy = "nuts"  -> {"almonds", "walnuts", "cashews"}
      [] allergy = "eggs"  -> {"egg"}
      [] OTHER             -> {allergy}

\* plan holds an ingredient that one of the user's allergies stands for
HasAllergen(u, plan) ==
    \E i \in 1..Len(u.allergies) :
        DictGet(plan, "ingredients", {}) \cap AllergenIngredients(u.allergies[i]) # {}

\* C11: allergen rejection is absolute: for every allergy of the user, no
\* record holding an ingredient mapped to that allergy is among the
\* recommendations the generate path returns.
C11_AllergenRejection ==
    (strategy = "strict" /\ mpc \in {"recommended", "responded"}) =>
        \A i \in 1..Len(recommendations) : ~HasAllergen(user, recommendations[i])

\* ---- the step-by-step hard filter of tests/test_profile_matching.py

\* s.replace(' ', '_') on the lower-cased activity strings
Underscored(s) ==
    CASE s = "heavy active"      -> "heavy_active"
      [] s = "heavy activity"    -> "heavy_activity"
      [] s = "moderately active" -> "moderately_active"
      [] s = "lightly active"    -> "lightly_active"
      [] OTHER                   -> s

\* is_diet_compatible(plan_diet, user_diet), both strings
is_diet_compatible(plan_diet, user_diet) ==
    LET pd == Lower(plan_diet)
        ud == Lower(user_diet)
    IN  IF ud = "vegan" THEN pd = "vegan"
        ELSE IF ud = "vegetarian" THEN pd \in {"vegan", "vegetarian"}
        ELSE IF ud = "eggetarian" THEN pd \in {"vegan", "vegetarian", "eggetarian"}
        ELSE TRUE

\* plan p is in diet_matches: it passed the gender, BMI, activity and diet
\* steps; a null attribute makes .lower() raise, so the record passes nothing
hard_filter(u, p) ==
    /\ p.gender # None /\ Lower(p.gender) = u.gender
    /\ p.bmi_category # None /\ Lower(p.bmi_category) = u.bmi_category
    /\ p.activity # None /\ Underscored(Lower(p.activity)) = u.activity_level
    /\ p.diet_type # None /\ u.diet_type # None
    /\ is_diet_compatible(p.diet_type, u.diet_type)

\* ---- the declared priority of the weighted score

GoalPoints   == 1000
DietPoints   == 100
RegionPoints == 10

GoalAligned(u, p) == Truthy(GOAL_TO_CATEGORY(u.goal)) /\ p.category = GOAL_TO_CATEGORY(u.goal)
DietExact(u, p)   == p.diet_type # None /\ u.diet_type # None
                        /\ Lower(p.diet_type) = Lower(u.diet_type)
RegionEqual(u, p) == p.region = u.region

Score(u, p) ==
    (IF GoalAligned(u, p) THEN GoalPoints ELSE 0)
      + (IF DietExact(u, p) THEN DietPoints ELSE 0)
      + (IF RegionEqual(u, p) THEN RegionPoints ELSE 0)

\* a surviving record with goal and exact diet but another region
ExactDietWrongRegion(u, p) ==
    hard_filter(u, p) /\ GoalAligned(u, p) /\ DietExact(u, p) /\ ~RegionEqual(u, p)

\* a surviving record with goal and region whose diet is compatible, not exact
RegionCompatibleDiet(u, p) ==
    hard_filter(u, p) /\ GoalAligned(u, p) /\ RegionEqual(u, p) /\ ~DietExact(u, p)

\* C12: the recommendations come in non-increasing score order (goal 1000,
\* exact diet 100, region 10), and a record matching goal and exact diet in
\* the wrong region ranks above a record matching goal and region whose diet
\* is only compatible.
C12_RankedByScore ==
    (strategy = "strict" /\ mpc \in {"recommended", "responded"}) =>
        /\ \A i, j \in 1..Len(recommendations) :
              i < j => Score(user, recommendations[i]) >= Score(user, recommendations[j])
        /\ \A a, b \in Range(index) :
              (ExactDietWrongRegion(user, a) /\ RegionCompatibleDiet(user, b)) =>
                  \E i \in 1..Len(recommendations) :
                      /\ recommendations[i] = a
                      /\ \A j \in 1..Len(recommendations) : recommendations[j] = b => i < j

C14_StrictWithinHardFilter ==
    (strategy = "strict" /\ mpc = "done") =>
        \A i \in 1..Len(matched) :
            /\ hard_filter(user, matched[i])
            /\ matched[i].region = user.region
            /\ matched[i].category = GOAL_TO_CATEGORY(user.goal)

-----------------------------------------------------------------------------
(* Properties of Relaxed Goal Match                                         *)

\* record p has the resolved category, the user's diet after normalization
\* of both sides, and the user's region
GoalCriteria(u, p) ==
    /\ Lower(OrElse(p.category, "")) = goal_category_map(detect_primary_goal(u))
    /\ goal_normalize_diet_type(p.diet_type)
          = goal_normalize_diet_type(DictGet(u, "diet_type", ""))
    /\ Lower(OrElse(p.region, "")) = Lower(DictGet(u, "region", ""))

\* C15: Relaxed Goal Match returns a record if and only if its category is
\* the category resolved from the user's primary goal, its normalized
\* diet_type equals the user's normalized diet_type, and its region equals
\* the user's region.
C15_GoalMatchIff ==
    (strategy = "goal" /\ mpc = "done") =>
        \A i \in 1..Len(index) :
            (index[i] \in Range(matched)) <=> GoalCriteria(user, index[i])

\* the profile fields Relaxed Goal Match is said to depend on
GoalFields == {"goals", "weight", "target_weight", "diet_type", "region"}

\* two profiles agree on every field of GoalFields (present in both with the
\* same value, or absent in both)
AgreeOnGoalFields(u1, u2) ==
    \A k \in GoalFields :
        /\ (k \in DOMAIN u1) <=> (k \in DOMAIN u2)
        /\ k \in DOMAIN u1 => u1[k] = u2[k]

\* C16: Relaxed Goal Match ignores gender, bmi_category, activity, age,
\* allergies and health conditions: any profile that agrees with the user's
\* on goal, weight, target weight, diet_type and region gets, from the same
\* index, exactly the records the user got.
C16_IgnoredFieldsDoNotMatter ==
    (strategy = "goal" /\ mpc = "done") =>
        \A u2 \in DictUsers :
            AgreeOnGoalFields(user, u2) =>
                \A i \in 1..Len(index) :
                    (index[i] \in Range(matched)) <=> goal_plan_matches(u2, index[i])

\* C16 witness: a male user is given the record written for women, which a
\* female user with the same goal, diet and region gets too.
C16_Witness ==
    /\ strategy = "goal" /\ mpc = "done"
    /\ user = [BaseUser EXCEPT !.gender = "male"]
    /\ index = << BasePlan, [BasePlan EXCEPT !.region = "south_indian"] >>
    /\ matched = << BasePlan >>
    /\ AgreeOnGoalFields(user, BaseUser)
    /\ goal_plan_matches(BaseUser, BasePlan)

\* the three-tier fallback as claimed, for a profile that states its weight
ThreeTierGoal(u) ==
    LET goals == DictGet(u, "goals", <<>>) IN
    IF goals # <<>> THEN goals[1]
    ELSE IF "target_weight" \notin DOMAIN u THEN "maintain"
    ELSE IF u.target_weight < u.weight THEN "weight_loss"
    ELSE IF u.target_weight > u.weight THEN "weight_gain"
    ELSE "maintain"

\* C17: the primary goal Relaxed Goal Match resolves is the explicit first
\* goal when one is given; otherwise weight loss or weight gain as the target
\* weight is below or above the current weight; otherwise (target weight
\* absent or equal to the current weight) "maintain".
C17_ThreeTierFallback ==
    (strategy = "goal" /\ mpc = "recommended" /\ "weight" \in DOMAIN user) =>
        recommendations.criteria.goal = ThreeTierGoal(user)

-----------------------------------------------------------------------------
(* Properties of the recommendation result                                  *)

\* C18: for each strategy, a request for which zero candidates match is
\* answered with a structured result of status not_available that carries a
\* message and the criteria searched, never with an error.
C18_NoMatchIsNotAvailable ==
    (mpc = "responded" /\ matched = <<>>) =>
        /\ "raised" \notin DOMAIN response
        /\ DictGet(response, "status", None) = "not_available"
        /\ "message" \in DOMAIN response
        /\ "criteria" \in DOMAIN response

\* record p agrees with the profile u on gender, activity, diet, region and
\* category, spellings aside
FiveAxesAgree(u, p) ==
    /\ Lower(OrElse(p.gender, "")) = Lower(u.gender)
    /\ normalize_activity(p.activity) = normalize_activity(u.activity_level)
    /\ exact_normalize_diet_type(OrElse(p.diet_type, "vegetarian"))
          = exact_normalize_diet_type(u.diet_type)
    /\ Lower(OrElse(p.region, "")) = Lower(u.region)
    /\ Lower(OrElse(p.category, "")) \in target_categories(u)

\* record p agrees with the profile u on the BMI category, spellings aside
BmiAgrees(u, p) == normalize_bmi(p.bmi_category) = normalize_bmi(u.bmi_category)

\* C19: every plan ExactMatchRecommender returns agrees with the user's
\* profile on all six of gender, BMI category, activity, diet, region and
\* category.
C19_ExactOnAllSix ==
    (strategy = "exact" /\ mpc = "done") =>
        \A i \in 1..Len(matched) :
            FiveAxesAgree(user, matched[i]) /\ BmiAgrees(user, matched[i])

\* ---- C28

\* C28: for a user whose explicit goal is in the strict goal table, every
\* plan hierarchical_exact_match returns is a plan goal_match accepts for the
\* same user (and so returns from the same index).
C28_StrictWithinGoalMatch ==
    (strategy = "strict" /\ mpc = "done"
        /\ user.goal \in StrictGoals /\ user.goals = << user.goal >>) =>
        \A i \in 1..Len(matched) : goal_plan_matches(user, matched[i])

-----------------------------------------------------------------------------
(* SpecCache: request threads call the strategy getters of service/api.py. *)
(* A call is the test `if _cache is None`, the construction of the         *)
(* recommender (which loads the index), the store into the global, and     *)
(* `return _cache`; threads may be switched between any two of them.       *)

CacheInit ==
    /\ index_file \in BOOLEAN
    /\ cache = [g \in Getters |-> 0]
    /\ constructed = [g \in Getters |-> 0]
    /\ returned = [g \in Getters |-> {}]
    /\ req = [t \in Threads |-> NoCall]
    /\ NormIdle
    /\ MatchIdle
    /\ CycleIdle
    /\ OthersIdle

\* a call of getter g has already ended in the constructor's exception
RaisedBefore(g) == \E s \in Threads : req[s].getter = g /\ req[s].gpc = "raised"

\* thread t enters getter g
Enter(t, g) ==
    /\ req[t].gpc \in {"idle", "done", "raised"}
    /\ req[t].calls < MaxCalls
    /\ req' = [req EXCEPT ![t] = [ getter |-> g, gpc |-> "test", seen |-> returned[g],
                                   failed_before |-> RaisedBefore(g),
                                   inst |-> 0, loaded |-> FALSE, result |-> 0,
                                   calls |-> req[t].calls + 1 ]]
    /\ UNCHANGED <<index_file, cache, constructed, returned>>
    /\ UNCHANGED <<norm_vars, match_vars, cycle_vars, api_vars, llm_vars, ml_vars>>

\* the test taken as "the cache is set" whatever the cache holds
TestSkipsLoad(t) ==
    /\ req[t].gpc = "test"
    /\ req' = [req EXCEPT ![t].gpc = "return"]
    /\ UNCHANGED <<index_file, cache, constructed, returned>>
    /\ UNCHANGED <<norm_vars, match_vars, cycle_vars, api_vars, llm_vars, ml_vars>>

\* if _cache is None:
Test(t) ==
    /\ req[t].gpc = "test"
    /\ req' = [req EXCEPT ![t].gpc = IF cache[req[t].getter] = 0 THEN "construct"
                                                                 ELSE "return"]
    /\ UNCHANGED <<index_file, cache, constructed, returned>>
    /\ UNCHANGED <<norm_vars, match_vars, cycle_vars, api_vars, llm_vars, ml_vars>>

\* PDFRecommender() / ExactMatchRecommender() / GoalOnlyRecommender(): the
\* constructor loads the index, or raises when the index file is missing
Construct(t) ==
    /\ req[t].gpc = "construct"
    /\ IF index_file
       THEN /\ constructed' = [constructed EXCEPT ![req[t].getter] = @ + 1]
            /\ req' = [req EXCEPT ![t].gpc = "assign",
                                  ![t].inst = constructed[req[t].getter] + 1,
                                  ![t].loaded = TRUE]
       ELSE /\ req' = [req EXCEPT ![t].gpc = "raised"]
            /\ UNCHANGED constructed
    /\ UNCHANGED <<index_file, cache, returned>>
    /\ UNCHANGED <<norm_vars, match_vars, cycle_vars, api_vars, llm_vars, ml_vars>>

\* _cache = <the new instance>
Assign(t) ==
    /\ req[t].gpc = "assign"
    /\ cache' = [cache EXCEPT ![req[t].getter] = req[t].inst]
    /\ req' = [req EXCEPT ![t].gpc = "return"]
    /\ UNCHANGED <<index_file, constructed, returned>>
    /\ UNCHANGED <<norm_vars, match_vars, cycle_vars, api_vars, llm_vars, ml_vars>>

\* return _cache
Return(t) ==
    /\ req[t].gpc = "return"
    /\ req' = [req EXCEPT ![t].gpc = "done", ![t].result = cache[req[t].getter]]
    /\ returned' = [returned EXCEPT ![req[t].getter] = @ \cup {cache[req[t].getter]}]
    /\ UNCHANGED <<index_file, cache, constructed>>
    /\ UNCHANGED <<norm_vars, match_vars, cycle_vars, api_vars, llm_vars, ml_vars>>

GetterEnter     == \E t \in Threads, g \in Getters : Enter(t, g)
GetterTest      == \E t \in Threads : Test(t)
GetterConstruct == \E t \in Threads : Construct(t)
GetterAssign    == \E t \in Threads : Assign(t)
GetterReturn    == \E t \in Threads : Return(t)

CacheNext ==
    GetterEnter \/ GetterTest \/ GetterConstruct \/ GetterAssign \/ GetterReturn

SpecCache == CacheInit /\ [][CacheNext]_vars

\* C20: once a getter has returned an instance, every call of that getter
\* that begins later returns that same instance and does not load the index
\* again.
C20_LoadedOncePerProcess ==
    \A t \in Threads :
        (req[t].gpc = "done" /\ req[t].seen # {}) =>
            /\ req[t].seen = {req[t].result}
            /\ ~req[t].loaded

\* ---- C21

C30_ConstructedOnceUnderOverlap ==
    \A g \in Getters :
        /\ constructed[g] <= 1
        /\ \A t1, t2 \in Threads :
              (req[t1].getter = g /\ req[t2].getter = g
                 /\ req[t1].gpc = "done" /\ req[t2].gpc = "done")
              => req[t1].result = req[t2].result

-----------------------------------------------------------------------------
(* SpecSelect: one request to POST /api/meal-plan/select (select_meal_plans *)
(* of service/api.py, which calls generate_multi_plan_cycle), and one       *)
(* request to POST /api/meal-plan/swap (swap_meal).                         *)

MaxRecs == 6            \* longest `recommendations` list of a request

\* days=14 of the call in select_meal_plans
SelectDays == 14

\* a path string as the list of its separators and segments
PathChars(path) ==
    CASE path = "D:/app/plans/a.txt" -> << "D:", "/", "app", "/", "plans", "/", "a.txt" >>
      [] path = "plans\\b.txt"       -> << "plans", "\\", "b.txt" >>
      [] path = "plans//b.txt"       -> << "plans", "/", "/", "b.txt" >>
      [] path = "plans/gone.txt"     -> << "plans", "/", "gone.txt" >>
      [] path = "plans/a.txt"        -> << "plans", "/", "a.txt" >>
      [] path = "plans/b.txt"        -> << "plans", "/", "b.txt" >>
      [] path = "plans/highcal.txt"  -> << "plans", "/", "highcal.txt" >>
      [] OTHER                       -> << >>

\* s.replace('\\', '/')
ReplaceBackslash(s) == [i \in 1..Len(s) |-> IF s[i] = "\\" THEN "/" ELSE s[i]]

\* s.replace('//', '/'): one pass from the left over non-overlapping pairs
RECURSIVE ReplaceDoubleSlash(_)
ReplaceDoubleSlash(s) ==
    IF Len(s) < 2 THEN s
    ELSE IF s[1] = "/" /\ s[2] = "/"
         THEN << "/" >> \o ReplaceDoubleSlash(SubSeq(s, 3, Len(s)))
         ELSE << s[1] >> \o ReplaceDoubleSlash(Tail(s))

\* file_path.replace('\\', '/').replace('//', '/')
NormalizePath(path) == ReplaceDoubleSlash(ReplaceBackslash(PathChars(path)))

\* a.endswith(b)
EndsWith(a, b) == Len(b) <= Len(a) /\ SubSeq(a, Len(a) - Len(b) + 1, Len(a)) = b

\* outputs/pdf_index.json as select_meal_plans loads it
SelectIndex ==
    << PdfPlan("plans/a.txt", "weight_loss"), PdfPlan("plans/b.txt", "skin_health"),
       PdfPlan("plans/highcal.txt", "weight_gain") >>

\* the first index plan whose path equals, ends with, or is the end of, the
\* recommendation's path: a list of that plan, or the empty list
RECURSIVE FindInIndex(_, _)
FindInIndex(plans, normalized_file_path) ==
    IF plans = <<>> THEN <<>>
    ELSE LET plan_file_path == NormalizePath(DictGet(Head(plans), "file_path", "")) IN
         IF \/ plan_file_path = normalized_file_path
            \/ EndsWith(plan_file_path, normalized_file_path)
            \/ EndsWith(normalized_file_path, plan_file_path)
         THEN << Head(plans) >>
         ELSE FindInIndex(Tail(plans), normalized_file_path)

\* the plan object select_meal_plans appends for one recommendation (a list
\* of it), or the empty list when it appends nothing.  relative_path and
\* nutrition are absent from an AI plan: the values .get() reads for them.
ConvertRec(rec, profile) ==
    IF DictGet(rec, "ai_generated", FALSE) \/ ~Truthy(DictGet(rec, "file_path", None))
    THEN << [ title        |-> DictGet(rec, "category", "AI Generated Plan"),
              category     |-> DictGet(rec, "category", "ai_generated"),
              region       |-> DictGet(rec, "region", DictGet(profile, "region", "north_indian")),
              diet_type    |-> DictGet(rec, "diet_type", DictGet(profile, "diet_type", "vegetarian")),
              gender       |-> DictGet(profile, "gender", "female"),
              bmi_category |-> DictGet(profile, "bmi_category", "normal"),
              activity     |-> DictGet(profile, "activity_level", "light"),
              meals        |-> DictGet(rec, "meals", <<>>),
              file_path    |-> None,
              ai_generated |-> TRUE,
              relative_path |-> None,
              nutrition    |-> EmptyDict ] >>
    ELSE FindInIndex(SelectIndex, NormalizePath(rec.file_path))

\* a card as generate_meal_plan hands it to the frontend
PdfCard(file_path, category) ==
    [ id |-> 0, file_path |-> file_path, category |-> category, region |-> "north_indian",
      diet_type |-> "vegetarian", meals |-> <<>> ]

\* a card of the ML endpoint: no file_path, the generated meals attached
AiCard ==
    [ id |-> 0, category |-> "weight_loss", ai_generated |-> TRUE, meals |-> AiPlan.meals ]

RecCards ==
    { PdfCard("D:/app/plans/a.txt", "weight_loss"), PdfCard("plans\\b.txt", "skin_health"),
      PdfCard("plans/gone.txt", "gut_detox"), AiCard }

\* "id": i of the card at position i of the list the frontend was given
WithIds(cards) == [i \in 1..Len(cards) |-> [cards[i] EXCEPT !.id = i - 1]]

\* a list of n cards, for the lengths above 2
LongList(n) ==
    [i \in 1..n |-> CASE i % 3 = 1 -> PdfCard("D:/app/plans/a.txt", "weight_loss")
                      [] i % 3 = 2 -> PdfCard("plans//b.txt", "skin_health")
                      [] OTHER     -> AiCard]

\* the `recommendations` lists a request carries
RecLists ==
    { WithIds(l) : l \in SeqsUpTo(RecCards, 2) \cup { LongList(n) : n \in 3..MaxRecs } }

\* the `selected_ids` lists a request carries: none, up to two ids, one more
\* than five
SelectedIdLists ==
    { <<>>, <<0>>, <<1>>, <<0, 1>>, <<1, 0>>, [i \in 1..6 |-> i - 1] }

Systems == {"weighted", "exact", "goal"}

\* data/profile.json
SelectProfile ==
    [ gender |-> "female", region |-> "south_indian", diet_type |-> "vegetarian",
      activity_level |-> "light", goals |-> << "weight_loss" >> ]

\* what recommend(..., top_k=10) of the chosen strategy can return: index
\* plans, each at most once, in any order
Regenerated ==
    UNION { Shuffles(Take(s, TopK)) :
            s \in { SelectSeq(SelectIndex, LAMBDA p : p \in S) : S \in SUBSET Range(SelectIndex) } }

\* dict[key] = value
DictSet(dict, key, value) ==
    [k \in DOMAIN dict \cup {key} |-> IF k = key THEN value ELSE dict[k]]

\* a response that is an error to the caller
IsError(resp) == "raised" \in DOMAIN resp

\* a cycle saved by an earlier request
StoredCycle ==
    LET plan_data == [plan |-> AiPlan, meals |-> CollectMlMeals(AiPlan.meals, EmptyMealOptions)]
    IN  << daily_plan(1, plan_data), daily_plan(2, plan_data) >>

SelectInit ==
    /\ profile_json \in {EmptyDict, SelectProfile}
    /\ data \in { [selected_ids |-> ids, recommendations |-> r, system |-> sys] :
                    ids \in SelectedIdLists, r \in RecLists, sys \in Systems }
    /\ data.recommendations # <<>> => data.system = "weighted"
    /\ recs = <<>>
    /\ rec_pos = 0
    /\ meal_plans_json \in {<<>>, StoredCycle}
    /\ selected_plan_ids_json = <<>>
    /\ apc = "idle"
    /\ api_response = EmptyDict
    /\ NormIdle
    /\ MatchIdle
    /\ CycleIdle
    /\ CacheIdle
    /\ LlamaIdle
    /\ MlIdle

\* select_meal_plans up to `recommendations = data.get("recommendations", [])`
SelectStart ==
    /\ apc = "idle"
    /\ IF DOMAIN profile_json = {}
       THEN /\ api_response' = HTTPException(404, "Profile not found")
            /\ apc' = "responded"
            /\ recs' = recs
       ELSE IF Len(data.selected_ids) < 1 \/ Len(data.selected_ids) > 5
       THEN /\ api_response' = HTTPException(400, "Please select 1-5 meal plans")
            /\ apc' = "responded"
            /\ recs' = recs
       ELSE /\ recs' = data.recommendations
            /\ apc' = IF data.recommendations = <<>> THEN "regenerate" ELSE "convert"
            /\ api_response' = api_response
    /\ UNCHANGED <<profile_json, data, rec_pos, meal_plans_json, selected_plan_ids_json>>
    /\ UNCHANGED <<norm_vars, match_vars, cycle_vars, cache_vars, llm_vars, ml_vars>>

\* `if not recommendations:` the recommender of data["system"] is asked again
SelectRegenerate ==
    /\ apc = "regenerate"
    /\ recs' \in Regenerated
    /\ apc' = "convert"
    /\ UNCHANGED <<profile_json, data, rec_pos, meal_plans_json, selected_plan_ids_json,
                   api_response>>
    /\ UNCHANGED <<norm_vars, match_vars, cycle_vars, cache_vars, llm_vars, ml_vars>>

\* one iteration of `for rec in recommendations`
SelectConvert ==
    /\ apc = "convert"
    /\ rec_pos < Len(recs)
    /\ selected_plans' = selected_plans \o ConvertRec(recs[rec_pos + 1], profile_json)
    /\ rec_pos' = rec_pos + 1
    /\ UNCHANGED <<profile_json, data, recs, meal_plans_json, selected_plan_ids_json, apc,
                   api_response>>
    /\ UNCHANGED <<days, plan_pos, plans_with_meals, schedule, plan_index, day, error, pc>>
    /\ UNCHANGED <<norm_vars, match_vars, cache_vars, llm_vars, ml_vars>>

\* `if not selected_plans: raise HTTPException(500)`, else the call
\* recommender.generate_multi_plan_cycle(selected_plans, days=14)
SelectCall ==
    /\ apc = "convert"
    /\ rec_pos = Len(recs)
    /\ IF selected_plans = <<>>
       THEN /\ api_response' = HTTPException(500, "Failed to load selected plans")
            /\ apc' = "responded"
            /\ UNCHANGED <<days, pc>>
       ELSE /\ days' = SelectDays
            /\ pc' = "start"
            /\ apc' = "cycle"
            /\ api_response' = api_response
    /\ UNCHANGED <<profile_json, data, recs, rec_pos, meal_plans_json, selected_plan_ids_json>>
    /\ UNCHANGED <<selected_plans, plan_pos, plans_with_meals, schedule, plan_index, day, error>>
    /\ UNCHANGED <<norm_vars, match_vars, cache_vars, llm_vars, ml_vars>>

\* after the call: an exception of the assembler leaves the endpoint, a
\* returned cycle is saved with the profile's start date and the selected ids
SelectFinish ==
    /\ apc = "cycle"
    /\ pc \in {"done", "raised"}
    /\ IF pc = "raised"
       THEN /\ api_response' = [ raised |-> error ]
            /\ UNCHANGED <<profile_json, meal_plans_json, selected_plan_ids_json>>
       ELSE /\ profile_json' = DictSet(profile_json, "plan_start_date", 0)
            /\ meal_plans_json' = schedule
            /\ selected_plan_ids_json' = data.selected_ids
            /\ api_response' = [ status |-> "success", cycle |-> schedule,
                                 days |-> Len(schedule) ]
    /\ apc' = "responded"
    /\ UNCHANGED <<data, recs, rec_pos>>
    /\ UNCHANGED <<norm_vars, match_vars, cycle_vars, cache_vars, llm_vars, ml_vars>>

\* _generate_alternative_meal: name, calories and time of the alternative
generate_alternative_meal(meal_type, profile) ==
    LET diet_type == IF DOMAIN profile # {} THEN DictGet(profile, "diet_type", "vegetarian")
                     ELSE "vegetarian"
        is_veg == diet_type \in {"vegetarian", "vegan"}
        breakfast == [ name |-> IF is_veg THEN "Poha with Vegetables"
                                ELSE "Scrambled Eggs with Toast",
                       calories |-> 300, time |-> "7:00 AM" ]
    IN  CASE meal_type = "lunch" ->
                [ name |-> "Brown Rice with Dal", calories |-> 420, time |-> "1:00 PM" ]
          [] meal_type = "dinner" ->
                [ name |-> IF is_veg THEN "Vegetable Khichdi" ELSE "Chicken Curry with Rice",
                  calories |-> 380, time |-> "7:30 PM" ]
          [] OTHER -> breakfast

\* the dates and meal types a swap request names; date 99 is in no cycle
SwapDates == {0, 1, 99}
SwapMealTypes == {"breakfast", "dinner", "brunch"}

\* positions of the stored daily plans dated `date`
DatedAt(meal_plans, date) == { i \in 1..Len(meal_plans) : meal_plans[i].date = date }

\* swap_meal: the whole handler
SwapMeal ==
    /\ apc \in {"idle", "responded"}
    /\ \E date \in SwapDates, meal_type \in SwapMealTypes :
          LET meal_plans == meal_plans_json
              found == DatedAt(meal_plans, date)
          IN  IF found = {}
              THEN /\ api_response' = HTTPException(404, "Meal plan not found")
                   /\ meal_plans_json' = meal_plans_json
              ELSE LET at == CHOOSE i \in found : \A j \in found : i <= j
                       alternative == generate_alternative_meal(meal_type, profile_json)
                       swapped ==
                           DictSet(DictSet(DictSet(meal_plans[at], meal_type, alternative),
                                           "is_adjusted", TRUE),
                                   "swap_reason", "variety")
                   IN  /\ meal_plans_json' = [meal_plans EXCEPT ![at] = swapped]
                       /\ api_response' =
                             [ raised |-> "NameError: name 'alternatives' is not defined" ]
    /\ apc' = "swapped"
    /\ UNCHANGED <<profile_json, data, recs, rec_pos, selected_plan_ids_json>>
    /\ UNCHANGED <<norm_vars, match_vars, cycle_vars, cache_vars, llm_vars, ml_vars>>

SelectNext ==
    \/ SelectStart \/ SelectRegenerate \/ SelectConvert \/ SelectCall
    \/ Validate \/ ParsePlan \/ CheckParsed \/ AssembleDay \/ ReturnSchedule
    \/ SelectFinish \/ SwapMeal

SpecSelect == SelectInit /\ [][SelectNext]_vars

\* ---- C22

\* C22: a cycle is only ever assembled from between 1 and 5 selected plans.
C22_CycleFromOneToFivePlans ==
    pc = "done" => Len(selected_plans) \in 1..5

\* ---- C26

\* the id the request's selected_ids use for the recommendation at position i
RecId(i) == DictGet(recs[i], "id", i - 1)

\* C26: every day of the cycle select_meal_plans returns is drawn from a
\* plan that one of the request's selected_ids identifies.
C26_OnlySelectedContribute ==
    (pc = "done" /\ "cycle" \in DOMAIN api_response) =>
        \A d \in 1..Len(schedule) :
            \E i \in 1..Len(recs) :
                /\ RecId(i) \in Range(data.selected_ids)
                /\ \E plan \in Range(ConvertRec(recs[i], SelectProfile)) :
                      DrawnFrom(schedule[d], plan)

\* ---- C29

\* C29: a swap request that ends in an error leaves the stored meal plans as
\* they were before the request.
C29_ErrorLeavesMealPlans ==
    [][ (apc' = "swapped" /\ IsError(api_response')) => meal_plans_json' = meal_plans_json ]_vars

-----------------------------------------------------------------------------
(* SpecLlama: one call of LlamaService.generate_meal_plan.  What the model  *)
(* server answers is an input: for each day, what _call_ollama followed by  *)
(* _extract_json_from_response yields.  A string that the code builds from  *)
(* pieces (an f-string) is the list of its pieces; a plain string is the    *)
(* list of itself.                                                          *)

MaxLlmDays == 2         \* largest `days` argument drawn

\* the user's allergies as entered
Allergies == {"peanuts", "dairy", "eggs", "Nuts", "tofu", "fish"}

\* Python `allergen in s.lower()` for a lower-case allergen and a string of a
\* meal plan
InLowered(allergen, s) ==
    CASE allergen = "peanuts" -> s \in {"peanuts", "roasted peanuts"}
      [] allergen = "eggs"    -> s \in {"eggs", "Eggs", "2 boiled eggs"}
      [] allergen = "nuts"    -> s \in {"mixed nuts", "Handful of nuts",
                                        "Portion 30g of mixed nuts", "walnuts", "peanuts",
                                        "roasted peanuts"}
      [] allergen = "tofu"    -> s \in {"tofu", "Tofu", "Tofu scramble with vegetables",
                                        "tofu scramble with vegetables"}
      [] allergen = "fish"    -> s \in {"fish", "Fish"}
      [] allergen = "dairy"   -> s \in {}
      [] OTHER                -> FALSE

\* protein.capitalize()
Capitalize(s) ==
    CASE s = "tofu"           -> "Tofu"
      [] s = "lentils"        -> "Lentils"
      [] s = "chickpeas"      -> "Chickpeas"
      [] s = "paneer"         -> "Paneer"
      [] s = "tempeh"         -> "Tempeh"
      [] s = "chicken breast" -> "Chicken breast"
      [] s = "eggs"           -> "Eggs"
      [] s = "fish"           -> "Fish"
      [] s = "turkey"         -> "Turkey"
      [] s = "prawns"         -> "Prawns"
      [] s = "lean beef"      -> "Lean beef"
      [] s = "lamb"           -> "Lamb"
      [] OTHER                -> s

\* f"day_{day_num}"
DayKey(day_num) ==
    CASE day_num = 1 -> "day_1" [] day_num = 2 -> "day_2" [] day_num = 3 -> "day_3"
      [] day_num = 4 -> "day_4" [] day_num = 5 -> "day_5" [] day_num = 6 -> "day_6"
      [] OTHER -> "day_7"

\* a meal of a plan: the strings of its dict
Meal(name, ingredients, instructions) ==
    [ name |-> name, ingredients |-> ingredients, instructions |-> instructions ]

\* " ".join(instructions)
RECURSIVE JoinSpace(_)
JoinSpace(list) ==
    IF list = <<>> THEN <<>>
    ELSE IF Len(list) = 1 THEN << list[1] >>
    ELSE << list[1], " " >> \o JoinSpace(Tail(list))

\* the day data the model server can answer with; instructions_list marks an
\* answer whose instructions are a JSON array
SafeDay ==
    [ breakfast |-> [ name |-> << "Oat Bowl" >>,
                      ingredients |-> << "oats", "banana", "honey" >>,
                      instructions |-> << "Cook oats", "Add banana" >>,
                      instructions_list |-> TRUE ] ]

PeanutButterDay ==
    [ breakfast |-> [ name |-> << "Oat Bowl" >>,
                      ingredients |-> << "oats", "peanut butter", "banana" >>,
                      instructions |-> << "Cook oats" >>,
                      instructions_list |-> FALSE ] ]

PeanutsDay ==
    [ breakfast |-> [ name |-> << "Fruit Bowl" >>,
                      ingredients |-> << "roasted peanuts", "banana" >>,
                      instructions |-> << "Mix" >>,
                      instructions_list |-> FALSE ],
      lunch     |-> [ name |-> << "Paneer Wrap" >>,
                      ingredients |-> << "1 tortilla", "100g paneer" >>,
                      instructions |-> << "Grill paneer" >>,
                      instructions_list |-> FALSE ] ]

DayData == { SafeDay, PeanutButterDay, PeanutsDay }

\* what _extract_json_from_response yields for a day's answer: nothing
\* parseable, {"meal_plan": {"day_n": ...}}, {"day_n": ...}, or a dict with
\* neither key (such as the "Ollama not available" answer of _fallback_response)
ExtractedAnswers ==
    { [ format |-> "none" ], [ format |-> "other" ] }
    \cup { [ format |-> f, day_data |-> d ] : f \in {"nested", "direct"}, d \in DayData }

\* the loop that joins instructions given as arrays
FixInstructions(day_data) ==
    [ meal_type \in DOMAIN day_data |->
        LET meal == day_data[meal_type] IN
        Meal(meal.name, meal.ingredients,
             IF meal.instructions_list THEN JoinSpace(meal.instructions)
             ELSE meal.instructions) ]

\* the keys json.dumps(meal_plan) writes besides the day and meal keys
DumpKeys ==
    { "meal_plan", "daily_totals", "calories", "protein_g", "carbs_g", "fats_g",
      "safety_check", "rationale", "name", "ingredients", "protein", "carbs", "fats",
      "instructions" }

MealStrings(meal) == Range(meal.name) \cup Range(meal.ingredients) \cup Range(meal.instructions)

\* the strings of json.dumps(meal_plan): keys and string values
DumpStrings(meal_plan) ==
    LET plan_days == meal_plan.meal_plan IN
    DumpKeys \cup Range(meal_plan.safety_check) \cup Range(meal_plan.rationale)
    \cup DOMAIN plan_days
    \cup UNION { DOMAIN plan_days[d] : d \in DOMAIN plan_days }
    \cup UNION { UNION { MealStrings(plan_days[d][m]) : m \in DOMAIN plan_days[d] } :
                    d \in DOMAIN plan_days }

\* LlamaService._validate_allergen_safety
validate_allergen_safety(meal_plan, allergies) ==
    IF allergies = <<>> THEN TRUE
    ELSE ~ \E i \in 1..Len(allergies) :
              \E s \in DumpStrings(meal_plan) : InLowered(Lower(allergies[i]), s)

\* is_vegetarian of _create_safe_fallback_plan
is_vegetarian(profile) ==
    LET dietary_pref == DictGet(profile, "dietary_preferences", <<>>)
        diet_type == DictGet(profile, "diet_type", "")
    IN  \/ \E i \in 1..Len(dietary_pref) : Lower(dietary_pref[i]) \in {"vegetarian", "vegan"}
        \/ Lower(diet_type) \in {"vegetarian", "vegan"}

\* proteins of _create_safe_fallback_plan
fallback_proteins(profile) ==
    LET allergies == DictGet(profile, "allergies", <<>>) IN
    IF is_vegetarian(profile)
    THEN << "tofu", "lentils", "chickpeas", "paneer", "tempeh" >>
    ELSE IF "eggs" \notin { Lower(allergies[i]) : i \in 1..Len(allergies) }
    THEN << "chicken breast", "eggs", "fish", "turkey", "prawns" >>
    ELSE << "chicken breast", "turkey", "fish", "lean beef", "lamb" >>

breakfast_options ==
    << [ name |-> "Oatmeal with fruits",
         ingredients |-> << "oats", "banana", "berries", "honey" >> ],
       [ name |-> "Whole grain toast with avocado",
         ingredients |-> << "whole wheat bread", "avocado", "tomato", "olive oil" >> ],
       [ name |-> "Smoothie bowl",
         ingredients |-> << "banana", "berries", "yogurt", "granola", "chia seeds" >> ],
       [ name |-> "Tofu scramble with vegetables",
         ingredients |-> << "tofu", "spinach", "mushrooms", "whole wheat toast" >> ],
       [ name |-> "Greek yogurt parfait",
         ingredients |-> << "greek yogurt", "granola", "mixed berries", "honey" >> ],
       [ name |-> "Quinoa breakfast bowl",
         ingredients |-> << "quinoa", "almond milk", "apple", "cinnamon", "walnuts" >> ],
       [ name |-> "Protein pancakes",
         ingredients |-> << "oat flour", "banana", "protein powder", "berries" >> ] >>

\* meal_plan[f"day_{day}"] of _create_safe_fallback_plan
fallback_day(day_no, proteins) ==
    LET protein == proteins[((day_no - 1) % Len(proteins)) + 1]
        breakfast == breakfast_options[((day_no - 1) % Len(breakfast_options)) + 1]
    IN  [ breakfast |-> Meal(<< breakfast.name >>, breakfast.ingredients,
                             << "Prepare ", Lower(breakfast.name), " with listed ingredients" >>),
          lunch     |-> Meal(<< "Grilled ", protein, " with vegetables" >>,
                             << protein, "broccoli", "carrots", "olive oil", "brown rice" >>,
                             << "Grill ", protein, ", steam vegetables, serve with brown rice" >>),
          dinner    |-> Meal(<< Capitalize(protein), " stir-fry with quinoa" >>,
                             << protein, "bell peppers", "zucchini", "quinoa", "soy sauce" >>,
                             << "Stir-fry protein and vegetables, serve over cooked quinoa" >>),
          snack_1   |-> Meal(<< "Fresh fruit" >>, << "seasonal fruit" >>,
                             << "Wash and eat fresh fruit" >>),
          snack_2   |-> Meal(<< "Handful of nuts" >>, << "mixed nuts" >>,
                             << "Portion 30g of mixed nuts" >>) ]

FallbackDayKeys == { "day_1", "day_2", "day_3", "day_4", "day_5", "day_6", "day_7" }

\* `for day in range(1, 8)`: the day number of a key
DayOf(key) == CHOOSE day_no \in 1..7 : DayKey(day_no) = key

\* LlamaService._create_safe_fallback_plan
create_safe_fallback_plan(profile) ==
    [ meal_plan    |-> [ key \in FallbackDayKeys |->
                            fallback_day(DayOf(key), fallback_proteins(profile)) ],
      safety_check |-> << "Basic 7-day plan with allergens avoided" >>,
      rationale    |-> << "Fallback plan generated due to Llama parsing error. Adjust portions based on your calorie needs." >> ]

\* the dict generate_meal_plan combines from the collected days
combined_plan(days_collected) ==
    [ meal_plan    |-> days_collected,
      safety_check |-> << "All meals verified allergen-free" >>,
      rationale    |-> << "Meal plan generated in batches for reliability" >> ]

\* the profiles handed to generate_meal_plan
LlamaProfiles ==
    { [ allergies |-> a, dietary_preferences |-> << "vegetarian" >> ] :
        a \in SeqsUpTo(Allergies, 2) }
    \cup { [ allergies |-> a, diet_type |-> "Non-Veg" ] : a \in SeqsUpTo(Allergies, 2) }
    \cup { [ allergies |-> a, diet_type |-> "Vegan" ] : a \in SeqsUpTo(Allergies, 1) }
    \cup { [ diet_type |-> "vegetarian" ] }

LlamaInit ==
    /\ llm_profile \in LlamaProfiles
    /\ llm_days \in 1..MaxLlmDays
    /\ ollama \in [1..llm_days -> ExtractedAnswers]
    /\ all_days = EmptyDict
    /\ llm_day = 1
    /\ validated = NotRun
    /\ llm_plan = EmptyDict
    /\ lpc = "days"
    /\ NormIdle
    /\ MatchIdle
    /\ CycleIdle
    /\ CacheIdle
    /\ ApiIdle
    /\ MlIdle

\* one iteration of `for day_num in range(1, days + 1)`
LlamaDay ==
    /\ lpc = "days"
    /\ llm_day <= llm_days
    /\ LET day_plan == ollama[llm_day] IN
       IF day_plan.format \in {"nested", "direct"}
       THEN /\ all_days' = DictSet(all_days, DayKey(llm_day), FixInstructions(day_plan.day_data))
            /\ llm_day' = llm_day + 1
            /\ UNCHANGED <<llm_plan, lpc>>
       ELSE /\ llm_plan' = create_safe_fallback_plan(llm_profile)
            /\ lpc' = "done"
            /\ UNCHANGED <<all_days, llm_day>>
    /\ UNCHANGED <<llm_profile, llm_days, ollama, validated>>
    /\ UNCHANGED <<norm_vars, match_vars, cycle_vars, cache_vars, api_vars, ml_vars>>

\* after the loop: the days are combined, counted and checked for allergens
LlamaCombine ==
    /\ lpc = "days"
    /\ llm_day > llm_days
    /\ LET meal_plan == combined_plan(all_days)
           days_count == Cardinality(DOMAIN meal_plan.meal_plan)
           safe == validate_allergen_safety(meal_plan, DictGet(llm_profile, "allergies", <<>>))
       IN  IF days_count < llm_days
           THEN /\ llm_plan' = create_safe_fallback_plan(llm_profile)
                /\ validated' = validated
           ELSE /\ validated' = IF safe THEN "True" ELSE "False"
                /\ llm_plan' = IF safe THEN meal_plan
                               ELSE create_safe_fallback_plan(llm_profile)
    /\ lpc' = "done"
    /\ UNCHANGED <<llm_profile, llm_days, ollama, all_days, llm_day>>
    /\ UNCHANGED <<norm_vars, match_vars, cycle_vars, cache_vars, api_vars, ml_vars>>

LlamaNext == LlamaDay \/ LlamaCombine

SpecLlama == LlamaInit /\ [][LlamaNext]_vars

\* ---- C23

\* the ingredient strings that are, or are made from, the allergen
AllergenFoods(allergen) ==
    CASE allergen = "peanuts" -> {"peanuts", "roasted peanuts", "peanut butter"}
      [] allergen = "dairy"   -> {"yogurt", "greek yogurt", "paneer", "100g paneer"}
      [] allergen = "eggs"    -> {"eggs", "2 boiled eggs"}
      [] allergen = "nuts"    -> {"mixed nuts", "walnuts", "peanuts", "roasted peanuts",
                                  "peanut butter"}
      [] allergen = "tofu"    -> {"tofu"}
      [] allergen = "fish"    -> {"fish"}
      [] OTHER                -> {}

\* the ingredients of all meals of a plan
PlanIngredients(plan_days) ==
    UNION { UNION { Range(plan_days[d][m].ingredients) : m \in DOMAIN plan_days[d] } :
               d \in DOMAIN plan_days }

\* the plan has an ingredient made from one of the allergies
HasAllergenFood(plan_days, allergies) ==
    \E i \in 1..Len(allergies) :
        PlanIngredients(plan_days) \cap AllergenFoods(Lower(allergies[i])) # {}

\* C23: _validate_allergen_safety returns False exactly for the plans that
\* contain an ingredient made from one of the user's allergens, and True for
\* the others.
C23_ValidatorRejectsAllergenFoods ==
    validated # NotRun =>
        ((validated = "False")
            <=> HasAllergenFood(all_days, DictGet(llm_profile, "allergies", <<>>)))

\* ---- C24

\* the plan returned is the fallback plan
IsFallback(plan) ==
    "safety_check" \in DOMAIN plan
        /\ plan.safety_check = << "Basic 7-day plan with allergens avoided" >>

\* C24: no ingredient of a returned fallback plan contains the name of one of
\* the user's allergies.
C24_FallbackAvoidsAllergies ==
    (lpc = "done" /\ IsFallback(llm_plan)) =>
        LET allergies == DictGet(llm_profile, "allergies", <<>>) IN
        \A i \in 1..Len(allergies) :
            \A food \in PlanIngredients(llm_plan.meal_plan) :
                ~InLowered(Lower(allergies[i]), food)

-----------------------------------------------------------------------------
(* SpecMl: one call of MLRecommender.recommend up to the point where the    *)
(* retrieved plans are handed on for meal extraction and generation.  The   *)
(* cosine similarities of the vector search are not computed: the search    *)
(* returns the index in any order.                                          *)

MaxMlIndex == 2         \* largest number of plans in the index

\* the records of self.index['plans']
MlBasePlan ==
    [ category |-> "weight_loss", diet_type |-> "vegetarian", gender |-> "female",
      region |-> "north_indian", bmi_category |-> "normal", activity |-> "light" ]

MlPlans ==
    { MlBasePlan }
    \cup { [MlBasePlan EXCEPT !.diet_type = x] : x \in {"non_veg", "vegan"} }
    \cup { [MlBasePlan EXCEPT !.category = c] : c \in {"weight_loss_pcos", "skin_health"} }
    \cup { [MlBasePlan EXCEPT !.gender = g] : g \in {"male"} }

\* the `goal` of a request: a string (held as a one-element sequence) or a
\* list of strings
GoalInputs ==
    { [ kind |-> "str", value |-> << g >> ] : g \in {"weight_loss", "pcos", "maintain", "loss"} }
    \cup { [ kind |-> "list", value |-> l ] : l \in { <<>>, << "skin_health", "weight_loss" >> } }

\* the user_profile dicts handed to recommend
MlRequests ==
    { [ gender |-> "female", diet_type |-> x, goal |-> g ] :
        x \in {"vegetarian", "non_vegetarian", "vegan"}, g \in GoalInputs }
    \cup { [ gender |-> "female", goal |-> g ] : g \in GoalInputs }
    \cup { [ gender |-> "female", diet_type |-> "vegetarian" ] }

\* diet_type_mapping.get(diet_type, diet_type)
ml_diet_type_mapping(diet_type) ==
    CASE diet_type = "non_vegetarian" -> "non_veg"
      [] diet_type = "vegetarian"     -> "vegetarian"
      [] diet_type = "vegan"          -> "vegan"
      [] diet_type = "eggetarian"     -> "eggetarian"
      [] OTHER                        -> diet_type

\* activity_mapping.get(activity, activity)
ml_activity_mapping(activity) ==
    CASE activity = "very_active" -> "heavy"
      [] OTHER                    -> activity

\* goal_mapping.get(goal, goal), for the goals drawn
ml_goal_mapping(goal) ==
    CASE goal = "maintain"    -> "high_protein_balanced"
      [] goal = "weight_loss" -> "weight_loss"
      [] goal = "skin_health" -> "skin_health"
      [] goal = "pcos"        -> "weight_loss_pcos"
      [] OTHER                -> goal

\* goals_input[0] of a list (or 'maintain'), else the string itself
ml_goal(request) ==
    LET goals_input == DictGet(request, "goal", [ kind |-> "str", value |-> << "maintain" >> ]) IN
    IF goals_input.kind = "list"
    THEN (IF goals_input.value # <<>> THEN goals_input.value[1] ELSE "maintain")
    ELSE goals_input.value[1]

\* the UserProfile recommend builds from the request
ml_user_profile(request) ==
    [ gender         |-> DictGet(request, "gender", "male"),
      bmi_category   |-> DictGet(request, "bmi_category", "normal"),
      activity_level |-> ml_activity_mapping(DictGet(request, "activity_level", "moderate")),
      diet_type      |-> ml_diet_type_mapping(DictGet(request, "diet_type", "vegetarian")),
      region         |-> DictGet(request, "region", "north_indian"),
      goal           |-> ml_goal_mapping(ml_goal(request)) ]

\* user_profile.goal.lower().replace('_', ' ').split()
GoalKeywords(goal) ==
    CASE goal = "weight_loss"           -> << "weight", "loss" >>
      [] goal = "weight_loss_pcos"      -> << "weight", "loss", "pcos" >>
      [] goal = "high_protein_balanced" -> << "high", "protein", "balanced" >>
      [] goal = "skin_health"           -> << "skin", "health" >>
      [] OTHER                          -> << goal >>

\* Python `keyword in category` for the categories of the index
KeywordIn(keyword, category) ==
    CASE keyword = "weight" -> category \in {"weight_loss", "weight_loss_pcos"}
      [] keyword = "loss"   -> category \in {"weight_loss", "weight_loss_pcos"}
      [] keyword = "pcos"   -> category \in {"weight_loss_pcos"}
      [] keyword = "skin"   -> category \in {"skin_health"}
      [] keyword = "health" -> category \in {"skin_health"}
      [] OTHER              -> FALSE

\* the score of STEP 3, in 75ths
keyword_score(plan, profile) ==
    30 + (IF DictGet(plan, "gender", None) = profile.gender THEN 15 ELSE 0)
       + (IF DictGet(plan, "region", None) = profile.region THEN 10 ELSE 0)
       + (IF DictGet(plan, "bmi_category", None) = profile.bmi_category THEN 10 ELSE 0)
       + (IF DictGet(plan, "activity", None) = profile.activity_level THEN 10 ELSE 0)

\* the values keyword_score can take, largest first
ScoreLevels == << 75, 65, 60, 55, 50, 45, 40, 30 >>

\* results.sort(key=similarity_score, reverse=True): ties keep their order
RECURSIVE SortByScore(_, _, _)
SortByScore(results, profile, level) ==
    IF level > Len(ScoreLevels) THEN <<>>
    ELSE SelectSeq(results, LAMBDA plan : keyword_score(plan, profile) = ScoreLevels[level])
            \o SortByScore(results, profile, level + 1)

\* MLRecommender.keyword_search(user_profile, top_k=None)
keyword_search(plans, profile) ==
    LET diet_filtered_plans ==
            SelectSeq(plans, LAMBDA plan : DictGet(plan, "diet_type", None) = profile.diet_type)
        exact_category ==
            SelectSeq(diet_filtered_plans,
                      LAMBDA plan : Lower(DictGet(plan, "category", "")) = Lower(profile.goal))
        goal_keywords == GoalKeywords(Lower(profile.goal))
        partial_category ==
            SelectSeq(diet_filtered_plans,
                      LAMBDA plan : \A k \in 1..Len(goal_keywords) :
                                       KeywordIn(goal_keywords[k],
                                                 Lower(DictGet(plan, "category", ""))))
        category_filtered_plans ==
            IF exact_category # <<>> THEN exact_category
            ELSE IF partial_category # <<>> THEN partial_category
            ELSE diet_filtered_plans
    IN  SortByScore(category_filtered_plans, profile, 1)

MlInit ==
    /\ ml_request \in MlRequests
    /\ embeddings \in BOOLEAN
    /\ ml_index \in SeqsUpTo(MlPlans, MaxMlIndex)
    /\ ml_profile = EmptyDict
    /\ similar_pdfs = <<>>
    /\ mlpc = "start"
    /\ NormIdle
    /\ MatchIdle
    /\ CycleIdle
    /\ CacheIdle
    /\ ApiIdle
    /\ LlamaIdle

\* recommend up to `profile = UserProfile(...)`
MlNormalize ==
    /\ mlpc = "start"
    /\ ml_profile' = ml_user_profile(ml_request)
    /\ mlpc' = "search"
    /\ UNCHANGED <<ml_request, embeddings, ml_index, similar_pdfs>>
    /\ UNCHANGED <<norm_vars, match_vars, cycle_vars, cache_vars, api_vars, llm_vars>>

\* vector_search(profile, top_k=None) without the embeddings: keyword_search
MlKeywordSearch ==
    /\ mlpc = "search"
    /\ ~embeddings
    /\ similar_pdfs' = keyword_search(ml_index, ml_profile)
    /\ mlpc' = "searched"
    /\ UNCHANGED <<ml_request, embeddings, ml_index, ml_profile>>
    /\ UNCHANGED <<norm_vars, match_vars, cycle_vars, cache_vars, api_vars, llm_vars>>

\* vector_search(profile, top_k=None) with the embeddings: every plan of the
\* index, ordered by similarity; on an empty index results[0] raises
MlVectorSearch ==
    /\ mlpc = "search"
    /\ embeddings
    /\ IF ml_index = <<>>
       THEN mlpc' = "error" /\ similar_pdfs' = similar_pdfs
       ELSE mlpc' = "searched" /\ similar_pdfs' \in Shuffles(ml_index)
    /\ UNCHANGED <<ml_request, embeddings, ml_index, ml_profile>>
    /\ UNCHANGED <<norm_vars, match_vars, cycle_vars, cache_vars, api_vars, llm_vars>>

\* `if not similar_pdfs: raise ValueError`, else the plans go on to
\* extract_meals_from_pdfs and the generation
MlRetrieved ==
    /\ mlpc = "searched"
    /\ mlpc' = IF similar_pdfs = <<>> THEN "error" ELSE "retrieved"
    /\ UNCHANGED <<ml_request, embeddings, ml_index, ml_profile, similar_pdfs>>
    /\ UNCHANGED <<norm_vars, match_vars, cycle_vars, cache_vars, api_vars, llm_vars>>

MlNext == MlNormalize \/ MlKeywordSearch \/ MlVectorSearch \/ MlRetrieved

SpecMl == MlInit /\ [][MlNext]_vars

\* ---- C25

\* C25: every plan retrieved and passed on for generation has the user's
\* diet type.
C25_CandidatesHaveUsersDiet ==
    mlpc = "retrieved" =>
        \A i \in 1..Len(similar_pdfs) : similar_pdfs[i].diet_type = ml_profile.diet_type

====
